---- MODULE Spec2Model ----
(***************************************************************************)
(* Game Progress Tracker: the tag synchronisation engine of main.py over   *)
(* the SQLite store of backend/src/database.py and the search gateway of   *)
(* backend/src/hltb_service.py.                                            *)
(*                                                                         *)
(* Python values are modelled as follows.  A table is a function from the  *)
(* appids that have a row to the row; a missing row is a missing domain    *)
(* element.  None in a numeric field is NoValue.  A tag is a string, and   *)
(* the classifier's None is "none".  Durations are whole hours, playtime   *)
(* whole minutes, timestamps whole seconds, similarity hundredths.         *)
(*                                                                         *)
(* The specifications share the variables.  Spec is the single-game calls *)
(* with every input.  SpecLib is the library-wide sync of one caller among *)
(* single-game calls that give the store a history, and SpecRepeat the     *)
(* same sync with what it was handed written down.  SpecTags is the tag    *)
(* calls with every shape of parameter, SpecStats the two tag reports,     *)
(* SpecSweep the background task of the dropped sweep beside the manual    *)
(* sweep, with the fairness of the event loop.  SpecClassify applies the   *)
(* classifier's rules to one input and SpecVdf parse_vdf to one mapping.   *)
(* SpecLifecycle is the plugin from _main to the end of _unload over the   *)
(* store of an earlier session, connection being the state of the store's  *)
(* connection, and SpecUntag the tag calls over a store with a manual tag. *)
(* SpecVdfTokens runs the loop of parse_vdf token by token and SpecScan    *)
(* the loop of _parse_shortcuts_binary turn by turn.                       *)
(* A failing store is one whose reads raise; Database.set_tag and the      *)
(* other writes catch their own errors and return False.  The store has    *)
(* no get_all_game_stats and no get_games_eligible_for_dropped, which      *)
(* main.py calls: the two are modelled as the interface describes them,    *)
(* over the rows this store keeps.                                         *)
(***************************************************************************)
EXTENDS Integers, Sequences, FiniteSets, TLC

\* ------------------------------------------------------------------ bounds

\* The units of work of one behaviour: a caller-facing call is one unit, and
\* so is each game a library-wide sync goes through.
MaxWork == 2

\* ------------------------------------------------------- program constants

MinSimilarity == 70
MasteredPercent == 85
DefaultInProgress == 30
SeededInProgress == 60
DroppedDays == 365
NonSteamMillions == 2000
MaxErrorDetails == 10
PaceEvery == 5
ShortcutWindow == 500

\* --------------------------------------------------------------- the domain

NoValue == 0 - 1
Malformed == 0 - 2

OneYearSeconds == DroppedDays * 24 * 60 * 60
Now == OneYearSeconds + 1000

\* appid -> int(appid) in millions; "3000000555" is a shortcut's CRC id.
AppidMillions == [a \in {"440", "3000000555"} |-> IF a = "440" THEN 0 ELSE 3000]
Games == DOMAIN AppidMillions

\* The games in the order the store lists them.
AllGames == <<"440", "3000000555">>

Tags == {"completed", "in_progress", "mastered", "dropped"}
Playtimes == {0, 29, 30, 60, 120}
NoAch == [total |-> NoValue, unlocked |-> NoValue]
AchInputs == {NoAch, [total |-> 0, unlocked |-> 0], [total |-> 20, unlocked |-> 17]}
ThresholdInputs == {DefaultInProgress, SeededInProgress}
OneYearAgo == Now - OneYearSeconds
LastPlayedInputs == {NoValue, OneYearAgo, OneYearAgo - 1}

\* What the search provider answers: no usable result (an empty list or an
\* exception), or its best match's similarity and main-story hours.
NoAnswer == [found |-> FALSE, similarity |-> 0, main_story |-> NoValue]
ProviderAnswers ==
    {NoAnswer,
     [found |-> TRUE, similarity |-> 69, main_story |-> 2],
     [found |-> TRUE, similarity |-> 70, main_story |-> NoValue],
     [found |-> TRUE, similarity |-> 70, main_story |-> 0],
     [found |-> TRUE, similarity |-> 70, main_story |-> 2]}

\* A sync resolves a name and, if it searches, gets an answer; a placeholder
\* name is searched by nobody, so it comes with no answer.
Lookups ==
    {[name |-> "Unknown Game (id)", answer |-> NoAnswer]} \cup
    {[name |-> "Portal 2", answer |-> a] : a \in ProviderAnswers}

VARIABLES game_tags, game_stats, hltb_cache, settings,
          sync_in_progress, sync_current, sync_total,
          lib, last, work, cin, cout, sweeper, handed, inflight, connection

vars == <<game_tags, game_stats, hltb_cache, settings,
          sync_in_progress, sync_current, sync_total, lib, last, work, cin, cout,
          sweeper, handed, inflight, connection>>

\* ------------------------------------------------------------ Python values

\* bool(x) of an optional number: None and 0 are false.
Truthy(x) == x # NoValue /\ x # 0

Upsert(tbl, k, row) == [x \in (DOMAIN tbl) \cup {k} |-> IF x = k THEN row ELSE tbl[x]]

Delete(tbl, k) == [x \in (DOMAIN tbl) \ {k} |-> tbl[x]]

\* dict.get(key) of a row read from the store: None for a key the row lacks.
RowGet(row, key) == IF key \in DOMAIN row THEN row[key] ELSE NoValue

\* game_stats.get('is_hidden') of a row read from the store, as a truth
\* value: false for a row without the key.
is_hidden_of(row) == "is_hidden" \in DOMAIN row /\ row["is_hidden"]

\* existing_stats.get('achievement_percentage', 0.0) of a row read from the
\* store: 0 for a row without the key.
achievement_percentage_of(row) ==
    IF "achievement_percentage" \in DOMAIN row THEN row["achievement_percentage"] ELSE 0

\* --------------------------------------------------------------- the store

\* The game_tags CHECK constraint.
TagCheck == {"completed", "in_progress", "mastered"}

\* set_tag: the upsert, or no write when the CHECK rejects the tag (the
\* IntegrityError is caught and False returned).
set_tag_ok(tag) == tag \in TagCheck

\* An insert that leaves an existing row alone.
insert_or_ignore(tags, appid, tag, is_manual) ==
    IF set_tag_ok(tag) /\ appid \notin DOMAIN tags
    THEN Upsert(tags, appid, [tag |-> tag, is_manual |-> is_manual])
    ELSE tags

set_tag(tags, appid, tag, is_manual) ==
    IF set_tag_ok(tag)
    THEN Upsert(tags, appid, [tag |-> tag, is_manual |-> is_manual])
    ELSE tags

\* A removal that leaves a manual row in place.
remove_auto_tag(tags, appid) ==
    IF appid \in DOMAIN tags /\ tags[appid].is_manual THEN tags ELSE Delete(tags, appid)

remove_tag(tags, appid) == Delete(tags, appid)

\* No tag row, as get_tag answers for a game without one.
NoTag == [tag |-> "none", is_manual |-> FALSE]

\* get_tag: the row of the game, or None.
get_tag(tags, appid) == IF appid \in DOMAIN tags THEN tags[appid] ELSE NoTag

\* update_game_stats writes the columns game_stats has: the playtime and the
\* two achievement counts.  is_hidden, rt_last_time_played and
\* achievement_percentage of the stats dict have no column.
update_game_stats(stats, appid, s) ==
    Upsert(stats, appid,
           [playtime_minutes |-> s.playtime_minutes,
            total_achievements |-> s.total_achievements,
            unlocked_achievements |-> s.unlocked_achievements])

\* cache_hltb_data: the upsert of the search result.
cache_hltb_data(cache, appid, data) ==
    Upsert(cache, appid, [similarity |-> data.similarity, main_story |-> data.main_story])

\* get_hltb_cache: cached_at is SQLite's CURRENT_TIMESTAMP text, which float()
\* rejects, so cached_time is the current time and no row is ever expired.
get_hltb_cache_found(cache, appid) == appid \in DOMAIN cache

\* ------------------------------------------------------ the settings table

\* A settings row holds text: here a sequence of characters, so that str(),
\* lower() and float() act on what is written.  Values as the caller sees
\* them are typed: a bool, a float (mantissa / 10^scale, without trailing
\* zeros in the fraction) or a string.
Digits == <<"0", "1", "2", "3", "4", "5", "6", "7", "8", "9">>

Value(type, flag, number, text) ==
    [type |-> type, flag |-> flag, number |-> number, text |-> text]

None == Value("none", FALSE, <<0, 0>>, << >>)

ValueError == Value("error", FALSE, <<0, 0>>, << >>)

Bool(b) == Value("bool", b, <<0, 0>>, << >>)

Str(text) == Value("str", FALSE, <<0, 0>>, text)

RECURSIVE Float(_, _)
Float(mantissa, scale) ==
    IF scale > 0 /\ mantissa % 10 = 0
    THEN Float(mantissa \div 10, scale - 1)
    ELSE Value("float", FALSE, <<mantissa, scale>>, << >>)

TrueText == <<"t", "r", "u", "e">>

FalseText == <<"f", "a", "l", "s", "e">>

\* str.lower() over the letters the inputs use.
lower(text) ==
    LET upper == <<"A", "E", "F", "L", "R", "S", "T", "U">>
        small == <<"a", "e", "f", "l", "r", "s", "t", "u">>
    IN  [i \in 1 .. Len(text) |->
            IF \E k \in 1 .. 8 : upper[k] = text[i]
            THEN small[CHOOSE k \in 1 .. 8 : upper[k] = text[i]]
            ELSE text[i]]

RECURSIVE to_digits(_)
to_digits(n) ==
    IF n < 10 THEN <<Digits[n + 1]>>
    ELSE to_digits(n \div 10) \o <<Digits[(n % 10) + 1]>>

RECURSIVE to_int(_)
to_int(digits) ==
    IF digits = << >> THEN 0
    ELSE 10 * to_int(SubSeq(digits, 1, Len(digits) - 1))
         + (CHOOSE d \in 0 .. 9 : Digits[d + 1] = digits[Len(digits)])

RECURSIVE Power10(_)
Power10(n) == IF n = 0 THEN 1 ELSE 10 * Power10(n - 1)

\* str(value), lower-cased for a bool (set_setting); repr of a float is its
\* whole part, a point and its fraction ("30.0" for 30).
str(value) ==
    IF value.type = "bool" THEN (IF value.flag THEN TrueText ELSE FalseText)
    ELSE IF value.type = "str" THEN value.text
    ELSE LET mantissa == value.number[1]
             scale == value.number[2]
             frac == to_digits(mantissa % Power10(scale))
             zeros == [i \in 1 .. (scale - Len(frac)) |-> "0"]
         IN  to_digits(mantissa \div Power10(scale)) \o <<".">>
             \o (IF scale = 0 THEN <<"0">> ELSE zeros \o frac)

\* float(text): surrounding blanks are ignored; digits with an optional
\* point parse, anything else is a ValueError.  The texts used here
\* have no sign, exponent, underscore, "inf" or "nan".
RECURSIVE strip(_)
strip(text) ==
    IF text # << >> /\ Head(text) = " " THEN strip(Tail(text))
    ELSE IF text # << >> /\ text[Len(text)] = " " THEN strip(SubSeq(text, 1, Len(text) - 1))
    ELSE text

float(text) ==
    LET t == strip(text)
        points == {i \in 1 .. Len(t) : t[i] = "."}
        point == IF points = {} THEN Len(t) + 1 ELSE CHOOSE i \in points : TRUE
        whole == SubSeq(t, 1, point - 1)
        frac == SubSeq(t, point + 1, Len(t))
    IN  IF /\ Cardinality(points) <= 1
           /\ Len(whole) + Len(frac) > 0
           /\ \A i \in 1 .. Len(t) : i \in points \/ (\E d \in 1 .. 10 : Digits[d] = t[i])
        THEN Float(to_int(whole \o frac), Len(frac))
        ELSE ValueError

\* A row's text as the caller receives it without any conversion.
untyped(text) == Str(text)

\* The conversion of get_setting and get_all_settings.
typed(text) ==
    IF lower(text) \in {TrueText, FalseText} THEN Bool(lower(text) = TrueText)
    ELSE IF float(text) # ValueError THEN float(text)
    ELSE Str(text)

get_setting(st, key, default) == IF key \in DOMAIN st THEN typed(st[key]) ELSE default

get_all_settings(st) == [key \in DOMAIN st |-> typed(st[key])]

\* The number get_all_settings makes of a row's text: its whole minutes.
ParseSetting(text) ==
    LET value == typed(text)
    IN  value.number[1] \div Power10(value.number[2])

\* settings.get('in_progress_threshold', 30) of get_all_settings().
in_progress_threshold(st) ==
    IF "in_progress_threshold" \in DOMAIN st
    THEN ParseSetting(st["in_progress_threshold"])
    ELSE DefaultInProgress

\* ------------------------------------------------------ the search gateway

\* search_game: None for an empty or "Unknown..." name, for no result and for
\* a best match under min_similarity; else the best match's data.
IsPlaceholder(name) == name = "" \/ name = "Unknown Game (id)"

\* The calls of hltb.async_search one search_game makes: none for a name it
\* turns away, else one, whatever the provider answers.
provider_calls(name, searched) == IF searched /\ ~IsPlaceholder(name) THEN 1 ELSE 0

\* A provider's answer that is a miss: no result or an exception, a best
\* match under min_similarity, or a match without main-story hours.
is_miss(answer) ==
    \/ ~answer.found
    \/ answer.similarity < MinSimilarity
    \/ answer.main_story = NoValue

search_game(name, answer) ==
    IF IsPlaceholder(name) THEN NoAnswer
    ELSE IF ~answer.found THEN NoAnswer
    ELSE IF answer.similarity < MinSimilarity THEN NoAnswer
    ELSE answer

\* ---------------------------------------------------------- the classifier

\* The priority rules of calculate_auto_tag on a stats row, the cache row (or
\* its absence), the threshold and the clock.
\* (unlocked / total) * 100 >= 85, and 0 >= 85 without achievements.
auto_tag_mastered(stats) ==
    IF stats.total_achievements > 0
    THEN stats.unlocked_achievements * 100 >= MasteredPercent * stats.total_achievements
    ELSE 0 >= MasteredPercent

auto_tag_completed(stats, has_hltb, main_story) ==
    /\ has_hltb
    /\ Truthy(main_story)
    /\ stats.playtime_minutes >= main_story * 60

auto_tag_dropped(stats, now) ==
    LET rt == RowGet(stats, "rt_last_time_played")
    IN  /\ Truthy(rt)
        /\ rt > 0
        /\ now - rt > OneYearSeconds

\* The rules with staleness looked at first.
auto_tag_dropped_first(stats, has_hltb, main_story, threshold, now) ==
    IF auto_tag_dropped(stats, now) THEN "dropped"
    ELSE IF auto_tag_mastered(stats) THEN "mastered"
    ELSE IF auto_tag_completed(stats, has_hltb, main_story) THEN "completed"
    ELSE IF stats.playtime_minutes >= threshold THEN "in_progress"
    ELSE "none"

auto_tag(stats, has_hltb, main_story, threshold, now) ==
    IF auto_tag_mastered(stats) THEN "mastered"
    ELSE IF auto_tag_completed(stats, has_hltb, main_story) THEN "completed"
    ELSE IF auto_tag_dropped(stats, now) THEN "dropped"
    ELSE IF stats.playtime_minutes >= threshold THEN "in_progress"
    ELSE "none"

\* calculate_auto_tag(appid): the rules on the stored row; None without one.
calculate_auto_tag(db, appid) ==
    IF appid \notin DOMAIN db.stats THEN "none"
    ELSE auto_tag(db.stats[appid],
                  get_hltb_cache_found(db.cache, appid),
                  IF appid \in DOMAIN db.cache THEN db.cache[appid].main_story ELSE NoValue,
                  in_progress_threshold(db.settings),
                  Now)

\* ------------------------------------------------------- single-game syncs

DB == [tags |-> game_tags, stats |-> game_stats, cache |-> hltb_cache, settings |-> settings]

\* A sync that takes no tag for a manual one.
never_manual(tags, appid) == FALSE

\* current_tag and current_tag.get('is_manual')
is_manual_tag(tags, appid) == appid \in DOMAIN tags /\ tags[appid].is_manual

\* A sync that compares the classifier's tag with no stored tag.
no_current_tag(tags, appid) == "none"

\* current_tag.get('tag') if current_tag else None
current_tag_value(tags, appid) == IF appid \in DOMAIN tags THEN tags[appid].tag ELSE "none"

\* int(appid) > 2000000000
is_non_steam(appid) == AppidMillions[appid] > NonSteamMillions

\* should_fetch_hltb of sync_game_with_playtime: no row, or a row whose
\* main_story is None or 0.
should_fetch_hltb(cache, appid) ==
    appid \notin DOMAIN cache \/ ~Truthy(cache[appid].main_story)

\* The cache write gate of sync_game_with_playtime.
playtime_cache_gate(data) == data.found /\ Truthy(data.main_story)

\* The cache write gate of sync_game_tags.
tags_cache_gate(data) == data.found

\* The cache after the lookup step of sync_game_with_playtime.
fetch_hltb_with_playtime(cache, appid, lookup) ==
    IF should_fetch_hltb(cache, appid)
    THEN LET hltb_data == search_game(lookup.name, lookup.answer)
         IN  IF playtime_cache_gate(hltb_data)
             THEN cache_hltb_data(cache, appid, hltb_data)
             ELSE cache
    ELSE cache

\* A missing count taken for zero.
final_achievement_or_zero(given, stats, appid, field) ==
    IF given # NoValue THEN given ELSE 0

\* x if x is not None else (existing_stats.get(field, 0) if existing_stats else 0)
final_achievement(given, stats, appid, field) ==
    IF given # NoValue THEN given
    ELSE IF appid \in DOMAIN stats THEN stats[appid][field]
    ELSE 0

\* sync_game_with_playtime with the store up: the tables it leaves and the
\* tag_changed it reports.
sync_game_with_playtime(db, appid, playtime, ach, lookup, rt) ==
    LET is_manual == is_manual_tag(db.tags, appid)
        cache1 == fetch_hltb_with_playtime(db.cache, appid, lookup)
        is_hidden == is_non_steam(appid) /\ appid \notin DOMAIN cache1
        stats1 == update_game_stats(db.stats, appid,
                    [playtime_minutes |-> playtime,
                     total_achievements |->
                         final_achievement(ach.total, db.stats, appid, "total_achievements"),
                     unlocked_achievements |->
                         final_achievement(ach.unlocked, db.stats, appid, "unlocked_achievements"),
                     is_hidden |-> is_hidden,
                     rt_last_time_played |-> rt])
        db1 == [db EXCEPT !.stats = stats1, !.cache = cache1]
        calculated_tag == calculate_auto_tag(db1, appid)
        apply == /\ ~is_manual
                 /\ ~is_hidden
                 /\ calculated_tag # "none"
                 /\ calculated_tag # current_tag_value(db.tags, appid)
    IN  [tags |-> IF apply THEN set_tag(db.tags, appid, calculated_tag, FALSE) ELSE db.tags,
         stats |-> stats1,
         cache |-> cache1,
         tag_changed |-> apply,
         fetched |-> should_fetch_hltb(db.cache, appid),
         calculated_tag |-> calculated_tag,
         calls |-> provider_calls(lookup.name, should_fetch_hltb(db.cache, appid))]

\* What get_game_stats_full reads from the Steam files.
FileStats ==
    {[game_name |-> "", playtime_minutes |-> p,
      total_achievements |-> a.total, unlocked_achievements |-> a.unlocked] :
        p \in Playtimes, a \in AchInputs \ {NoAch}}

\* The write condition of sync_game_tags.
tags_write(new_tag, tags, appid, force) ==
    /\ new_tag # "none"
    /\ \/ new_tag # current_tag_value(tags, appid)
       \/ (force /\ is_manual_tag(tags, appid))

\* sync_game_tags with the store up.
sync_game_tags(db, appid, force, fs, answer) ==
    IF is_manual_tag(db.tags, appid) /\ ~force
    THEN [tags |-> db.tags, stats |-> db.stats, cache |-> db.cache, calls |-> 0]
    ELSE
    LET stats1 == update_game_stats(db.stats, appid, fs)
        hltb_data == search_game(fs.game_name, answer)
        cache1 == IF ~get_hltb_cache_found(db.cache, appid) /\ tags_cache_gate(hltb_data)
                  THEN cache_hltb_data(db.cache, appid, hltb_data)
                  ELSE db.cache
        db1 == [db EXCEPT !.stats = stats1, !.cache = cache1]
        new_tag == calculate_auto_tag(db1, appid)
    IN  [tags |-> IF tags_write(new_tag, db.tags, appid, force)
                  THEN set_tag(db.tags, appid, new_tag, FALSE)
                  ELSE db.tags,
         stats |-> stats1,
         cache |-> cache1,
         calls |-> provider_calls(fs.game_name, ~get_hltb_cache_found(db.cache, appid))]

\* ------------------------------------------------------------ the history

\* What the caller of the last step saw: the operation, the game, whether the
\* result carried a success indicator ("success_true", "success_false"), none
\* ("no_indicator") or the call raised ("raised"); a library-wide sync's
\* counters and the number of ids of its map (NoValue when the call held no
\* map); what the step was given (achievement data, the last-played
\* timestamp); and what get_game_tag, get_tag_statistics,
\* get_all_tags_with_names and check_dropped_games returned; and, of a
\* single-game sync, how often it called the search provider, whether that
\* call was a miss and whether the game's name was a placeholder.
NoResult == [total |-> 0, synced |-> 0, new_tags |-> 0, errors |-> 0, details |-> <<>>]

\* The counts of get_tag_statistics before any tag is counted.
NoCounts ==
    [completed |-> 0, in_progress |-> 0, mastered |-> 0, dropped |-> 0,
     backlog |-> 0, total |-> 0]

Did(op, appid, outcome) ==
    [op |-> op, appid |-> appid, outcome |-> outcome, error |-> FALSE,
     ach |-> FALSE, changed |-> FALSE, n |-> NoValue, result |-> NoResult,
     rt |-> NoValue, got |-> NoTag, counts |-> NoCounts, listed |-> {},
     dropped_count |-> 0, calls |-> 0, miss |-> FALSE, placeholder |-> FALSE]

\* One library-wide sync in flight: the loop of sync_library_with_playtime
\* over appids_to_sync with its local counters, and the number of its games
\* whose single-game sync went to search_game (fetches).
IdleRun ==
    [pc |-> "idle", keys |-> <<>>, ids |-> <<>>, i |-> 0, synced |-> 0, new_tags |-> 0,
     errors |-> 0, error_list |-> <<>>, hltb_requests |-> 0, delays |-> 0, fetches |-> 0]

Procs == {1}

\* A classifier input: the stats row, the cache row or its absence, the
\* threshold setting.
ClassifierInput(p, t, u, rt, has, ms, th) ==
    [stats |-> [playtime_minutes |-> p, total_achievements |-> t,
                unlocked_achievements |-> u, rt_last_time_played |-> rt],
     has_hltb |-> has, main_story |-> ms, threshold |-> th]

NoInput == ClassifierInput(0, 0, 0, NoValue, FALSE, NoValue, SeededInProgress)

\* What the library-wide sync in flight was handed for the games it has
\* synced (the entries of its maps and the answers of the data source, in
\* loop order) and the work done when the call arrived, written down only
\* in the specification that repeats a sync.
NothingHanded == [recording |-> FALSE, started |-> 0, log |-> << >>]

\* The single-game sync whose steps are taken one at a time: none, or one
\* that has read the tag row of its game (current_tag) and is suspended at
\* an await before its own write.
NoSync ==
    [pc |-> "idle", appid |-> "", current_tag |-> NoTag, playtime |-> 0, ach |-> NoAch,
     rt |-> NoValue]

\* The seconds of the three sleeps of _dropped_games_checker: before the
\* first sweep, after a sweep, and in the handler of a sweep's exception.
InitialSleep == 3600
DaySleep == 86400
RetrySleep == 3600

\* The background task _main creates: in its first sleep, with no
\* cancellation requested.  sleep is the length of the sleep the task is in
\* or was last in, stopped_in is where a cancellation found it.
SweeperStart ==
    [pc |-> "initial_sleep", cancel |-> FALSE, stopped_in |-> "running",
     sleep |-> InitialSleep]

\* _main: init_database on a fresh file seeds the settings and leaves the
\* three tables empty; the progress triple starts (False, 0, 0).
Init ==
    /\ game_tags = << >>
    /\ game_stats = << >>
    /\ hltb_cache = << >>
    /\ settings = [in_progress_threshold |-> <<"6", "0">>]
    /\ sync_in_progress = FALSE
    /\ sync_current = 0
    /\ sync_total = 0
    /\ lib = [p \in Procs |-> IdleRun]
    /\ last = Did("init", "", "success_true")
    /\ work = 0
    /\ cin = NoInput
    /\ cout = "unused"
    /\ sweeper = SweeperStart
    /\ handed = NothingHanded
    /\ inflight = NoSync
    /\ connection = "open"

Unit == work < MaxWork /\ work' = work + 1

Progress == <<sync_in_progress, sync_current, sync_total>>

\* ---------------------------------------------------------- the dropped sweep

\* The tags a sweep leaves alone.
SweepKeeps == {"dropped", "completed", "mastered"}

\* get_games_eligible_for_dropped(days): the stored games whose last-played
\* timestamp is set and older than the threshold, that are not hidden, not
\* manually tagged and not yet dropped, completed or mastered.
get_games_eligible_for_dropped(db, days) ==
    SelectSeq(AllGames,
              LAMBDA g :
                  /\ g \in DOMAIN db.stats
                  /\ RowGet(db.stats[g], "rt_last_time_played") # NoValue
                  /\ RowGet(db.stats[g], "rt_last_time_played") < Now - days * 24 * 60 * 60
                  /\ ~is_hidden_of(db.stats[g])
                  /\ ~(g \in DOMAIN db.tags /\ db.tags[g].is_manual)
                  /\ ~(g \in DOMAIN db.tags /\ db.tags[g].tag \in SweepKeeps))

\* The loop of _check_and_tag_dropped_games: set_tag 'dropped' for each
\* eligible game, counting the writes that succeeded.
RECURSIVE tag_dropped(_, _)
tag_dropped(tags, eligible) ==
    IF eligible = <<>>
    THEN [tags |-> tags, count |-> 0]
    ELSE LET rest == tag_dropped(set_tag(tags, Head(eligible), "dropped", FALSE),
                                 Tail(eligible))
         IN  [tags |-> rest.tags,
              count |-> rest.count + (IF set_tag_ok("dropped") THEN 1 ELSE 0)]

\* _check_and_tag_dropped_games(days_threshold)
check_and_tag_dropped_games(db, days) ==
    tag_dropped(db.tags, get_games_eligible_for_dropped(db, days))

\* check_dropped_games(days_threshold): one sweep on the caller's request.
CheckDroppedGames(days) ==
    /\ Unit
    /\ \E r \in {check_and_tag_dropped_games(DB, days)} :
          /\ game_tags' = r.tags
          /\ last' = [Did("check_dropped_games", "", "success_true")
                         EXCEPT !.dropped_count = r.count]
    /\ UNCHANGED <<game_stats, hltb_cache, settings, Progress, lib, cin, cout, sweeper, handed, inflight, connection>>

\* The background task.  Its first sleep, or the sleep between two sweeps,
\* is over: the sweep begins and waits for the store.
SweeperWake ==
    /\ ~sweeper.cancel
    /\ sweeper.pc \in {"initial_sleep", "sleep_24h", "sleep_retry"}
    /\ work < MaxWork
    /\ sweeper' = [sweeper EXCEPT !.pc = "sweeping"]
    /\ UNCHANGED <<game_tags, game_stats, hltb_cache, settings, Progress, lib, last,
                   work, cin, cout, handed, inflight, connection>>

\* The sweep with the default threshold runs to its end and the task goes
\* to sleep for a day.  The sweep catches every exception of its body and
\* answers 0, so the loop's own "except Exception" and its one-hour retry
\* sleep are never entered.
SweepFinish ==
    /\ ~sweeper.cancel
    /\ sweeper.pc = "sweeping"
    /\ Unit
    /\ \E r \in {check_and_tag_dropped_games(DB, DroppedDays)} :
          /\ game_tags' = r.tags
          /\ last' = [Did("dropped_sweep", "", "slept")
                         EXCEPT !.dropped_count = r.count]
    /\ sweeper' = [sweeper EXCEPT !.pc = "sleep_24h", !.sleep = DaySleep]
    /\ UNCHANGED <<game_stats, hltb_cache, settings, Progress, lib, cin, cout, handed, inflight, connection>>

\* The handler of the loop for an exception of the sweep: a one-hour sleep
\* before the next try.
SweepFailsRetry ==
    /\ ~sweeper.cancel
    /\ sweeper.pc = "sweeping"
    /\ Unit
    /\ last' = [Did("dropped_sweep", "", "failed") EXCEPT !.error = TRUE]
    /\ sweeper' = [sweeper EXCEPT !.pc = "sleep_retry", !.sleep = RetrySleep]
    /\ UNCHANGED <<game_tags, game_stats, hltb_cache, settings, Progress, lib, cin,
                   cout, handed, inflight, connection>>

\* The store query of the sweep raises.  _check_and_tag_dropped_games
\* catches the exception itself and answers 0, so the loop sees a sweep
\* that tagged nothing and sleeps for a day as after any sweep.
SweepFails ==
    /\ ~sweeper.cancel
    /\ sweeper.pc = "sweeping"
    /\ Unit
    /\ last' = [Did("dropped_sweep", "", "failed")
                   EXCEPT !.error = TRUE, !.dropped_count = 0]
    /\ sweeper' = [sweeper EXCEPT !.pc = "sleep_24h", !.sleep = DaySleep]
    /\ UNCHANGED <<game_tags, game_stats, hltb_cache, settings, Progress, lib, cin,
                   cout, handed, inflight, connection>>

\* _unload: dropped_task.cancel(), then the wait for the task.
Unload ==
    /\ ~sweeper.cancel
    /\ sweeper' = [sweeper EXCEPT !.cancel = TRUE]
    /\ last' = Did("unload", "", "waiting")
    /\ UNCHANGED <<game_tags, game_stats, hltb_cache, settings, Progress, lib, work,
                   cin, cout, handed, inflight, connection>>

\* A task whose sweep catches the CancelledError thrown into it as it
\* catches any exception: the sweep answers 0 and the task sleeps on.
SweeperSwallowsCancel ==
    /\ sweeper.cancel
    /\ sweeper.pc # "done"
    /\ sweeper' = IF sweeper.pc = "sweeping"
                  THEN [sweeper EXCEPT !.pc = "sleep_24h", !.cancel = FALSE]
                  ELSE [sweeper EXCEPT !.pc = "done", !.stopped_in = sweeper.pc]
    /\ last' = Did("unload", "", "stopped")
    /\ UNCHANGED <<game_tags, game_stats, hltb_cache, settings, Progress, lib, work,
                   cin, cout, handed, inflight, connection>>

\* The CancelledError is thrown into the task at the await it is
\* suspended in.  In the first sleep it leaves the coroutine; in the sleep
\* between sweeps it is caught and the loop left; inside a sweep it passes
\* the sweep's "except Exception" (CancelledError is a BaseException) and is
\* caught by the loop.  Each way the task is over.
SweeperCancelled ==
    /\ sweeper.cancel
    /\ sweeper.pc # "done"
    /\ sweeper' = [sweeper EXCEPT !.pc = "done", !.stopped_in = sweeper.pc]
    /\ last' = Did("unload", "", "stopped")
    /\ UNCHANGED <<game_tags, game_stats, hltb_cache, settings, Progress, lib, work,
                   cin, cout, handed, inflight, connection>>

\* An _unload that closes the connection without the wait for the task.
CloseStoreAtOnce ==
    /\ sweeper.cancel
    /\ connection = "open"
    /\ connection' = "closed"
    /\ last' = Did("unload", "", "closed")
    /\ UNCHANGED <<game_tags, game_stats, hltb_cache, settings, Progress, lib, work,
                   cin, cout, sweeper, handed, inflight>>

\* _unload, after the wait for the task: the task is over, the connection
\* of the store is closed.
CloseStore ==
    /\ sweeper.cancel
    /\ sweeper.pc = "done"
    /\ connection = "open"
    /\ connection' = "closed"
    /\ last' = Did("unload", "", "closed")
    /\ UNCHANGED <<game_tags, game_stats, hltb_cache, settings, Progress, lib, work,
                   cin, cout, sweeper, handed, inflight>>

\* ------------------------------------------------------ caller-facing calls

\* The tags set_manual_tag accepts before it asks the store.
valid_tags == {"completed", "in_progress", "mastered", "dropped"}

\* set_manual_tag(appid, tag): "" stands for a parameter that is missing.  A
\* missing id, a missing tag and a tag outside valid_tags are answered
\* success False before the store is asked; otherwise the answer is what
\* set_tag returned.
SetManualTag(appid, tag) ==
    /\ Unit
    /\ IF appid = "" \/ tag = "" \/ tag \notin valid_tags
       THEN /\ game_tags' = game_tags
            /\ last' = Did("set_manual_tag", appid, "success_false")
       ELSE /\ game_tags' = set_tag(game_tags, appid, tag, TRUE)
            /\ last' = Did("set_manual_tag", appid,
                           IF set_tag_ok(tag) THEN "success_true" ELSE "success_false")
    /\ UNCHANGED <<game_stats, hltb_cache, settings, Progress, lib, cin, cout, sweeper, handed, inflight, connection>>

\* remove_tag(appid)
RemoveTag(appid) ==
    /\ Unit
    /\ game_tags' = remove_tag(game_tags, appid)
    /\ last' = Did("remove_tag", appid, "success_true")
    /\ UNCHANGED <<game_stats, hltb_cache, settings, Progress, lib, cin, cout, sweeper, handed, inflight, connection>>

\* get_game_tag(appid): the tag row of the game, or no tag.
GetGameTag(appid) ==
    /\ Unit
    /\ last' = [Did("get_game_tag", appid, "success_true")
                   EXCEPT !.got = get_tag(game_tags, appid)]
    /\ UNCHANGED <<game_tags, game_stats, hltb_cache, settings, Progress, lib, cin, cout,
                   sweeper, handed, inflight, connection>>

\* get_all_game_stats(include_hidden): the ids of the stored games, without
\* the hidden ones unless they are asked for.
get_all_game_stats(stats, include_hidden) ==
    {g \in DOMAIN stats : include_hidden \/ ~is_hidden_of(stats[g])}

\* The loop of get_tag_statistics: a tag whose game has a stats row with
\* is_hidden is skipped; the others are counted under their tag.
tag_counts(tags, stats, tag) ==
    Cardinality({g \in DOMAIN tags :
                    /\ ~(g \in DOMAIN stats /\ is_hidden_of(stats[g]))
                    /\ tags[g].tag = tag})

tag_statistics(tags, stats) ==
    LET total_library == Cardinality(get_all_game_stats(stats, FALSE))
        visible_tags == tag_counts(tags, stats, "completed")
                        + tag_counts(tags, stats, "in_progress")
                        + tag_counts(tags, stats, "mastered")
                        + tag_counts(tags, stats, "dropped")
    IN  [completed |-> tag_counts(tags, stats, "completed"),
         in_progress |-> tag_counts(tags, stats, "in_progress"),
         mastered |-> tag_counts(tags, stats, "mastered"),
         dropped |-> tag_counts(tags, stats, "dropped"),
         backlog |-> total_library - visible_tags,
         total |-> total_library]

\* get_tag_statistics()
GetTagStatistics ==
    /\ Unit
    /\ last' = [Did("get_tag_statistics", "", "success_true")
                   EXCEPT !.counts = tag_statistics(game_tags, game_stats)]
    /\ UNCHANGED <<game_tags, game_stats, hltb_cache, settings, Progress, lib, cin, cout,
                   sweeper, handed, inflight, connection>>

\* The games get_all_tags_with_names lists: every tagged game but the
\* hidden ones whose tag is not manual.
tags_with_names(tags, stats) ==
    {g \in DOMAIN tags :
        ~((g \in DOMAIN stats /\ is_hidden_of(stats[g])) /\ ~tags[g].is_manual)}

\* get_all_tags_with_names()
GetAllTagsWithNames ==
    /\ Unit
    /\ last' = [Did("get_all_tags_with_names", "", "success_true")
                   EXCEPT !.listed = tags_with_names(game_tags, game_stats)]
    /\ UNCHANGED <<game_tags, game_stats, hltb_cache, settings, Progress, lib, cin, cout,
                   sweeper, handed, inflight, connection>>

\* sync_single_game and reset_to_auto_tag wrap sync_game_tags and answer
\* success True with whatever it returned.
SyncGameTagsCall(op, force, appid, fs, lookup) ==
    /\ Unit
    /\ \E r \in {sync_game_tags(DB, appid, force,
                                [fs EXCEPT !.game_name = lookup.name], lookup.answer)} :
          /\ game_tags' = r.tags
          /\ game_stats' = r.stats
          /\ hltb_cache' = r.cache
          /\ last' = [Did(op, appid, "success_true")
                         EXCEPT !.calls = r.calls,
                                !.miss = (r.calls = 1 /\ is_miss(lookup.answer)),
                                !.placeholder = IsPlaceholder(lookup.name)]
    /\ UNCHANGED <<settings, Progress, lib, cin, cout, sweeper, handed, inflight, connection>>

SyncSingleGame(appid, fs, lookup) ==
    SyncGameTagsCall("sync_single_game", FALSE, appid, fs, lookup)

ResetToAutoTag(appid, fs, lookup) ==
    SyncGameTagsCall("reset_to_auto_tag", TRUE, appid, fs, lookup)

\* The store failing under sync_game_tags: get_tag raises, sync_game_tags
\* catches and returns {"error": ...}, and the wrapper answers success True.
SyncGameTagsStoreDown(op, appid) ==
    /\ Unit
    /\ last' = [Did(op, appid, "success_true") EXCEPT !.error = TRUE]
    /\ UNCHANGED <<game_tags, game_stats, hltb_cache, settings, Progress, lib, cin, cout,
                   sweeper, handed, inflight, connection>>

\* sync_game_with_playtime called by itself: the tag row plus tag_changed
\* comes back, with no success key.
SyncGameWithPlaytime(appid, playtime, ach, lookup, rt) ==
    /\ Unit
    /\ \E r \in {sync_game_with_playtime(DB, appid, playtime, ach, lookup, rt)} :
          /\ game_tags' = r.tags
          /\ game_stats' = r.stats
          /\ hltb_cache' = r.cache
          /\ last' = [Did("sync_game_with_playtime", appid, "no_indicator")
                         EXCEPT !.ach = (ach # NoAch), !.changed = r.tag_changed,
                                !.rt = rt, !.calls = r.calls,
                                !.miss = (r.calls = 1 /\ is_miss(lookup.answer)),
                                !.placeholder = IsPlaceholder(lookup.name)]
    /\ UNCHANGED <<settings, Progress, lib, cin, cout, sweeper, handed, inflight, connection>>

\* The store failing under sync_game_with_playtime: get_tag raises and
\* nothing catches it.
SyncGameWithPlaytimeStoreDown(appid) ==
    /\ Unit
    /\ last' = Did("sync_game_with_playtime", appid, "raised")
    /\ UNCHANGED <<game_tags, game_stats, hltb_cache, settings, Progress, lib, cin, cout,
                   sweeper, handed, inflight, connection>>

\* ------------------------------------------------- the library-wide sync

\* The first argument of sync_library_with_playtime.  The three map shapes
\* ({game_data: ...}, {playtime_data: ...} and the bare playtime map) all end
\* as one game_data map, the two older ones with entries the newest can also
\* carry; a non-map under game_data reaches the outer try; anything else
\* fails on .items() before it.
MapShapes == {"game_data", "playtime_data", "direct"}
ArgShapes == MapShapes \cup {"game_data_not_a_dict", "playtime_data_not_a_dict", "not_a_dict"}

\* The key lists a live-data map can have.
KeySeqs == {<< >>} \cup {<<g>> : g \in Games}
              \cup {s \in {<<g, h>> : g, h \in Games} : s[1] # s[2]}

SeqElems(seq) == {seq[k] : k \in DOMAIN seq}

\* The map's ids followed by every other stored game.
all_stored_appids(keys, stored) ==
    keys \o SelectSeq(AllGames, LAMBDA g : g \in DOMAIN stored /\ g \notin SeqElems(keys))

\* appids_to_sync = list(game_data.keys()): the map's ids and no stored one.
appids_to_sync(keys, stored) == keys

\* One entry of game_data: a dict with playtime_minutes (an int, or a value
\* int() rejects) and rt_last_time_played, a bare number, or something else.
LibInfos ==
    {[shape |-> "dict", playtime |-> 0, rt |-> NoValue],
     [shape |-> "dict", playtime |-> 120, rt |-> NoValue],
     [shape |-> "dict", playtime |-> 120, rt |-> OneYearAgo - 1],
     [shape |-> "dict", playtime |-> Malformed, rt |-> NoValue],
     [shape |-> "number", playtime |-> 60, rt |-> NoValue],
     [shape |-> "other", playtime |-> 0, rt |-> NoValue]}

EmptyInfo == [shape |-> "dict", playtime |-> 0, rt |-> NoValue]

LibLookups ==
    {l \in Lookups : ~l.answer.found \/ (l.answer.similarity = MinSimilarity
                                          /\ l.answer.main_story = 2)}

\* game_data.get(appid, {})
game_info(keys, appid, info) == IF appid \in SeqElems(keys) THEN info ELSE EmptyInfo

\* The playtime extraction at the top of the loop body, outside the
\* per-game try: int() raises on a value it cannot convert.
playtime_raises(info) == info.shape = "dict" /\ info.playtime = Malformed

playtime_of(info) == IF info.shape = "other" THEN 0 ELSE info.playtime

last_played_of(info) == IF info.shape = "dict" THEN info.rt ELSE NoValue

\* The achievement entry is passed on only when it has total > 0.
live_achievements(entry) == IF entry.total > 0 THEN entry ELSE NoAch

\* self.sync_current after a game that synced, and after one that failed.
progress_after_sync(current, i) == i + 1

progress_stuck(current, i) == current

progress_after_error(current, i) == i + 1

\* error_list[:10]
error_details(error_list) ==
    SubSeq(error_list, 1, IF Len(error_list) < MaxErrorDetails
                          THEN Len(error_list) ELSE MaxErrorDetails)

\* A call that would wait for the library-wide sync in progress.
may_start_alone(p) == lib[p].pc = "idle" /\ ~sync_in_progress

\* sync_library_with_playtime starts whenever it is called: nothing reads
\* sync_in_progress before the loop.
may_start(p) == lib[p].pc = "idle"

\* The call arrives.  A bad first argument raises out of the call; a non-map
\* game_data fails inside the outer try, which resets the progress triple;
\* a map starts the loop.
StartLibrary(p, shape, keys) ==
    /\ may_start(p)
    /\ work < MaxWork
    /\ IF shape \in MapShapes
       THEN /\ \E ids \in {appids_to_sync(keys, game_stats)} :
                  /\ lib' = [lib EXCEPT ![p] = [IdleRun EXCEPT !.pc = "loop",
                                                  !.keys = keys, !.ids = ids]]
                  /\ sync_total' = Len(ids)
            /\ sync_in_progress' = TRUE
            /\ sync_current' = 0
            /\ last' = Did("library_start", "", "pending")
       ELSE IF shape = "game_data_not_a_dict"
       THEN /\ sync_in_progress' = FALSE
            /\ sync_current' = 0
            /\ sync_total' = 0
            /\ last' = [Did("sync_library_with_playtime", "", "success_false")
                           EXCEPT !.error = TRUE]
            /\ UNCHANGED lib
       ELSE /\ last' = Did("sync_library_with_playtime", "", "raised")
            /\ UNCHANGED <<lib, Progress>>
    /\ handed' = IF handed.recording /\ shape \in MapShapes
                 THEN [handed EXCEPT !.started = work, !.log = << >>]
                 ELSE handed
    /\ UNCHANGED <<game_tags, game_stats, hltb_cache, settings, work, cin, cout, sweeper, inflight, connection>>

\* One iteration of the loop with the store up.  A playtime int() rejects
\* raises outside the per-game try: the outer handler resets the progress
\* triple and the call answers success False.
LibraryGame(p, given, entry, lookup) ==
    /\ lib[p].pc = "loop"
    /\ lib[p].i < Len(lib[p].ids)
    /\ Unit
    /\ LET run == lib[p]
           appid == run.ids[run.i + 1]
           info == game_info(run.keys, appid, given)
       IN  IF playtime_raises(info)
           THEN /\ lib' = [lib EXCEPT ![p] = IdleRun]
                /\ sync_in_progress' = FALSE
                /\ sync_current' = 0
                /\ sync_total' = 0
                /\ last' = [Did("sync_library_with_playtime", "", "success_false")
                               EXCEPT !.error = TRUE, !.n = Len(run.keys)]
                /\ UNCHANGED <<game_tags, game_stats, hltb_cache, handed, inflight, connection>>
           ELSE \E r \in {sync_game_with_playtime(DB, appid, playtime_of(info),
                              live_achievements(entry), lookup, last_played_of(info))} :
                LET needs_hltb == ~get_hltb_cache_found(hltb_cache, appid)
                                  /\ playtime_of(info) > 0
                    requests == run.hltb_requests + (IF needs_hltb THEN 1 ELSE 0)
                    paced == needs_hltb /\ requests % PaceEvery = 0
                IN  /\ game_tags' = r.tags
                    /\ game_stats' = r.stats
                    /\ hltb_cache' = r.cache
                    /\ lib' = [lib EXCEPT ![p] =
                                 [run EXCEPT !.i = run.i + 1,
                                             !.synced = run.synced + 1,
                                             !.new_tags = run.new_tags
                                                 + (IF r.tag_changed THEN 1 ELSE 0),
                                             !.hltb_requests = requests,
                                             !.fetches = run.fetches
                                                 + (IF r.fetched THEN 1 ELSE 0),
                                             !.delays = run.delays
                                                 + (IF paced THEN 1 ELSE 0)]]
                    /\ sync_current' = progress_after_sync(sync_current, run.i)
                    /\ last' = [Did("library_game", appid, "synced")
                                   EXCEPT !.ach = (live_achievements(entry) # NoAch),
                                          !.changed = r.tag_changed]
                    /\ handed' = IF handed.recording
                                 THEN [handed EXCEPT !.log = Append(handed.log,
                                          [appid |-> appid,
                                           playtime |-> playtime_of(info),
                                           ach |-> live_achievements(entry),
                                           lookup |-> lookup,
                                           rt |-> last_played_of(info)])]
                                 ELSE handed
                    /\ UNCHANGED <<sync_in_progress, sync_total>>
    /\ UNCHANGED <<settings, cin, cout, sweeper, inflight, connection>>

\* One iteration with the store failing: get_hltb_cache raises inside the
\* per-game try, the game is counted as an error and the loop goes on.
LibraryGameFails(p) ==
    /\ lib[p].pc = "loop"
    /\ lib[p].i < Len(lib[p].ids)
    /\ Unit
    /\ LET run == lib[p]
           appid == run.ids[run.i + 1]
       IN  /\ lib' = [lib EXCEPT ![p] =
                        [run EXCEPT !.i = run.i + 1,
                                    !.errors = run.errors + 1,
                                    !.error_list = Append(run.error_list, appid)]]
           /\ sync_current' = progress_after_error(sync_current, run.i)
           /\ last' = Did("library_game", appid, "failed")
    /\ UNCHANGED <<game_tags, game_stats, hltb_cache, settings,
                   sync_in_progress, sync_total, cin, cout, sweeper, handed, inflight, connection>>

\* A return that leaves the progress triple as the last game set it.
LibraryReturnKeepsProgress(p) ==
    /\ lib[p].pc = "loop"
    /\ lib[p].i = Len(lib[p].ids)
    /\ last' = [Did("sync_library_with_playtime", "", "success_true")
                   EXCEPT !.n = Len(lib[p].keys)]
    /\ lib' = [lib EXCEPT ![p] = IdleRun]
    /\ UNCHANGED <<game_tags, game_stats, hltb_cache, settings, Progress, work, cin, cout,
                   sweeper, handed, inflight, connection>>

\* The loop is over: the progress triple is cleared and the counters returned.
LibraryReturn(p) ==
    /\ lib[p].pc = "loop"
    /\ lib[p].i = Len(lib[p].ids)
    /\ sync_in_progress' = FALSE
    /\ sync_current' = 0
    /\ sync_total' = 0
    /\ last' = [Did("sync_library_with_playtime", "", "success_true")
                   EXCEPT !.n = Len(lib[p].keys),
                          !.result = [total |-> Len(lib[p].ids),
                                      synced |-> lib[p].synced,
                                      new_tags |-> lib[p].new_tags,
                                      errors |-> lib[p].errors,
                                      details |-> error_details(lib[p].error_list)]]
    /\ lib' = [lib EXCEPT ![p] = IdleRun]
    /\ handed' = [handed EXCEPT !.started = 0, !.log = << >>]
    /\ UNCHANGED <<game_tags, game_stats, hltb_cache, settings, work, cin, cout, sweeper, inflight, connection>>

Next ==
    \/ \E appid \in Games, tag \in Tags : SetManualTag(appid, tag)
    \/ \E appid \in Games : RemoveTag(appid)
    \/ \E appid \in Games, fs \in FileStats, lookup \in Lookups :
          SyncSingleGame(appid, fs, lookup)
    \/ \E appid \in Games, fs \in FileStats, lookup \in Lookups :
          ResetToAutoTag(appid, fs, lookup)
    \/ \E op \in {"sync_single_game", "reset_to_auto_tag"}, appid \in Games :
          SyncGameTagsStoreDown(op, appid)
    \/ \E appid \in Games, playtime \in Playtimes, ach \in AchInputs,
          lookup \in Lookups, rt \in LastPlayedInputs :
          SyncGameWithPlaytime(appid, playtime, ach, lookup, rt)
    \/ \E appid \in Games : SyncGameWithPlaytimeStoreDown(appid)

Spec == Init /\ [][Next]_vars

\* The library-wide sync of one caller, among single-game calls that give the
\* store a history: manual tags, and games synced with and without
\* achievements and a cache entry.
SetupFileStats == {f \in FileStats : f.playtime_minutes = 120}

NextLib ==
    \/ \E appid \in Games, tag \in Tags : SetManualTag(appid, tag)
    \/ \E appid \in Games, fs \in SetupFileStats, lookup \in LibLookups :
          SyncSingleGame(appid, fs, lookup)
    \/ \E appid \in Games, ach \in {NoAch, [total |-> 20, unlocked |-> 17]},
          lookup \in LibLookups :
          SyncGameWithPlaytime(appid, 120, ach, lookup, NoValue)
    \/ \E p \in Procs, shape \in ArgShapes, keys \in KeySeqs : StartLibrary(p, shape, keys)
    \/ \E p \in Procs, given \in LibInfos, entry \in AchInputs, lookup \in LibLookups :
          LibraryGame(p, given, entry, lookup)
    \/ \E p \in Procs : LibraryGameFails(p)
    \/ \E p \in Procs : LibraryReturn(p)

SpecLib == Init /\ [][NextLib]_vars

\* The library-wide sync of SpecLib with what it is handed written down, so
\* that the sync can be repeated.
InitRepeat ==
    /\ game_tags = << >>
    /\ game_stats = << >>
    /\ hltb_cache = << >>
    /\ settings = [in_progress_threshold |-> <<"6", "0">>]
    /\ sync_in_progress = FALSE
    /\ sync_current = 0
    /\ sync_total = 0
    /\ lib = [p \in Procs |-> IdleRun]
    /\ last = Did("init", "", "success_true")
    /\ work = 0
    /\ cin = NoInput
    /\ cout = "unused"
    /\ sweeper = SweeperStart
    /\ handed = [NothingHanded EXCEPT !.recording = TRUE]
    /\ inflight = NoSync
    /\ connection = "open"

NextRepeat ==
    \/ \E appid \in Games : SetManualTag(appid, "completed")
    \/ \E appid \in Games, ach \in {NoAch, [total |-> 20, unlocked |-> 17]},
          lookup \in LibLookups :
          SyncGameWithPlaytime(appid, 120, ach, lookup, NoValue)
    \/ \E p \in Procs, shape \in ArgShapes, keys \in KeySeqs : StartLibrary(p, shape, keys)
    \/ \E p \in Procs, given \in LibInfos, entry \in AchInputs, lookup \in LibLookups :
          LibraryGame(p, given, entry, lookup)
    \/ \E p \in Procs : LibraryGameFails(p)
    \/ \E p \in Procs : LibraryReturn(p)

SpecRepeat == InitRepeat /\ [][NextRepeat]_vars

\* The tag calls on their own: every shape of set_manual_tag's parameters,
\* with one sync that leaves automatic tags behind.
AppidArgs == Games \cup {""}

TagArgs == valid_tags \cup {"", "backlog"}

NextTags ==
    \/ \E appid \in AppidArgs, tag \in TagArgs : SetManualTag(appid, tag)
    \/ \E appid \in Games : RemoveTag(appid)
    \/ \E appid \in Games : GetGameTag(appid)
    \/ \E appid \in Games, lookup \in LibLookups :
          SyncGameWithPlaytime(appid, 120, NoAch, lookup, NoValue)

SpecTags == Init /\ [][NextTags]_vars

\* The two tag reports, over stores that manual tags and syncs have filled.
NextStats ==
    \/ \E appid \in Games, tag \in Tags : SetManualTag(appid, tag)
    \/ \E appid \in Games, fs \in SetupFileStats, lookup \in LibLookups :
          SyncSingleGame(appid, fs, lookup)
    \/ \E appid \in Games, lookup \in LibLookups :
          SyncGameWithPlaytime(appid, 120, NoAch, lookup, NoValue)
    \/ GetTagStatistics
    \/ GetAllTagsWithNames

SpecStats == Init /\ [][NextStats]_vars

\* The background task beside the calls that give it games to look at.  The
\* event loop runs a task that has something to do, so a cancellation that
\* was requested is delivered.
SweepThresholds == {DroppedDays, 30}

NextSweep ==
    \/ \E appid \in Games, tag \in Tags : SetManualTag(appid, tag)
    \/ \E appid \in Games, lookup \in LibLookups, rt \in LastPlayedInputs :
          SyncGameWithPlaytime(appid, 120, NoAch, lookup, rt)
    \/ \E days \in SweepThresholds : CheckDroppedGames(days)
    \/ SweeperWake
    \/ SweepFinish
    \/ SweepFails
    \/ Unload
    \/ SweeperCancelled

SpecSweep == Init /\ [][NextSweep]_vars /\ WF_vars(SweeperCancelled)

\* ------------------------------------------------- the plugin's lifecycle

\* The store file outlives the plugin: what an earlier session left in it.
EarlierSession ==
    [tags |-> set_tag(<< >>, "440", "in_progress", FALSE),
     stats |-> update_game_stats(<< >>, "440",
                                 [playtime_minutes |-> 120,
                                  total_achievements |-> 20,
                                  unlocked_achievements |-> 17]),
     cache |-> cache_hltb_data(<< >>, "440",
                               [similarity |-> MinSimilarity, main_story |-> 2])]

\* _main over the store of an earlier session: CREATE TABLE IF NOT EXISTS
\* and INSERT OR IGNORE leave the rows that are there.
InitLifecycle ==
    /\ game_tags = EarlierSession.tags
    /\ game_stats = EarlierSession.stats
    /\ hltb_cache = EarlierSession.cache
    /\ settings = [in_progress_threshold |-> <<"6", "0">>]
    /\ sync_in_progress = FALSE
    /\ sync_current = 0
    /\ sync_total = 0
    /\ lib = [p \in Procs |-> IdleRun]
    /\ last = Did("init", "", "success_true")
    /\ work = 0
    /\ cin = NoInput
    /\ cout = "unused"
    /\ sweeper = SweeperStart
    /\ handed = NothingHanded
    /\ inflight = NoSync
    /\ connection = "open"

\* From _main to the end of _unload: the background task, and the calls
\* that arrive while the plugin is loaded.
NextLifecycle ==
    \/ /\ connection = "open"
       /\ \E appid \in Games, tag \in Tags : SetManualTag(appid, tag)
    \/ /\ connection = "open"
       /\ \E appid \in Games, lookup \in LibLookups, rt \in LastPlayedInputs :
             SyncGameWithPlaytime(appid, 120, NoAch, lookup, rt)
    \/ SweeperWake
    \/ SweepFinish
    \/ SweepFails
    \/ Unload
    \/ SweeperCancelled
    \/ CloseStore

\* The event loop resumes a task whose sleep is over or whose awaited call
\* has answered, throws a requested cancellation into the task, and resumes
\* _unload once the task it waits for is over.
SpecLifecycle ==
    /\ InitLifecycle
    /\ [][NextLifecycle]_vars
    /\ WF_vars(SweeperWake)
    /\ WF_vars(SweepFinish \/ SweepFails)
    /\ WF_vars(SweeperCancelled)
    /\ WF_vars(CloseStore)

\* ------------------------------------------------- a tag taken off again

\* The store of a user who tagged one game by hand in an earlier session
\* and synced it since: the manual tag, the stats and the cache entry.
InitUntag ==
    /\ game_tags = set_tag(<< >>, "440", "mastered", TRUE)
    /\ game_stats = EarlierSession.stats
    /\ hltb_cache = EarlierSession.cache
    /\ settings = [in_progress_threshold |-> <<"6", "0">>]
    /\ sync_in_progress = FALSE
    /\ sync_current = 0
    /\ sync_total = 0
    /\ lib = [p \in Procs |-> IdleRun]
    /\ last = Did("init", "", "success_true")
    /\ work = 0
    /\ cin = NoInput
    /\ cout = "unused"
    /\ sweeper = SweeperStart
    /\ handed = NothingHanded
    /\ inflight = NoSync
    /\ connection = "open"

\* The tag calls and the non-forced syncs over that store.
NextUntag ==
    \/ \E appid \in Games, tag \in Tags : SetManualTag(appid, tag)
    \/ \E appid \in Games : RemoveTag(appid)
    \/ \E appid \in Games : GetGameTag(appid)
    \/ \E appid \in Games, playtime \in Playtimes, ach \in AchInputs,
          lookup \in LibLookups, rt \in LastPlayedInputs :
          SyncGameWithPlaytime(appid, playtime, ach, lookup, rt)
    \/ \E appid \in Games, fs \in FileStats, lookup \in LibLookups :
          SyncSingleGame(appid, fs, lookup)

SpecUntag == InitUntag /\ [][NextUntag]_vars


\* ------------------------------------------------- the classifier alone

\* Stats rows, cache rows and thresholds around each rule's boundary.
ClassifierPlaytimes == {0, 29, 30, 59, 60, 119, 120}
ClassifierAch == {<<0, 0>>, <<20, 16>>, <<20, 17>>, <<20, 20>>}
ClassifierLastPlayed == {NoValue, 0, OneYearAgo, OneYearAgo - 1}
ClassifierCache == {<<FALSE, NoValue>>, <<TRUE, NoValue>>, <<TRUE, 0>>, <<TRUE, 2>>}

ClassifierInputs ==
    {ClassifierInput(p, a[1], a[2], rt, c[1], c[2], th) :
        p \in ClassifierPlaytimes, a \in ClassifierAch, rt \in ClassifierLastPlayed,
        c \in ClassifierCache, th \in ThresholdInputs}

InitClassify ==
    /\ game_tags = << >>
    /\ game_stats = << >>
    /\ hltb_cache = << >>
    /\ settings = [in_progress_threshold |-> <<"6", "0">>]
    /\ sync_in_progress = FALSE
    /\ sync_current = 0
    /\ sync_total = 0
    /\ lib = [p \in Procs |-> IdleRun]
    /\ last = Did("init", "", "success_true")
    /\ work = 0
    /\ cin \in ClassifierInputs
    /\ cout = "pending"
    /\ sweeper = SweeperStart
    /\ handed = NothingHanded
    /\ inflight = NoSync
    /\ connection = "open"

\* calculate_auto_tag's rules applied to the input.
Classify ==
    /\ cout = "pending"
    /\ cout' = auto_tag(cin.stats, cin.has_hltb, cin.main_story, cin.threshold, Now)
    /\ UNCHANGED <<game_tags, game_stats, hltb_cache, settings, Progress, lib, last,
                   work, cin, sweeper, handed, inflight, connection>>

NextClassify == Classify

SpecClassify == InitClassify /\ [][NextClassify]_vars


\* ------------------------------------------------------------ the text VDF

\* The characters the tokenizer tells apart.
Quote == "\""
Backslash == "\\"
Space == " "

\* A mapping is a function from keys to nodes; a node is a string or a
\* nested mapping.  Strings are sequences of characters.
EmptyMap == << >>

StrNode(text) == [kind |-> "str", text |-> text, map |-> EmptyMap]

MapNode(map) == [kind |-> "map", text |-> << >>, map |-> map]

VdfKeys == {<<"k">>, <<"n">>}

VdfKeyOrder == << <<"k">>, <<"n">> >>

\* Values: empty, plain, holding a quote, holding a backslash.
VdfValues == {<< >>, <<"v">>, <<"a", Quote>>, <<Backslash, "a">>}

VdfLeafMaps ==
    UNION {[D -> {StrNode(v) : v \in VdfValues}] : D \in SUBSET VdfKeys}

VdfMappings ==
    UNION {[D -> {StrNode(v) : v \in VdfValues} \cup {MapNode(m) : m \in VdfLeafMaps}] :
              D \in SUBSET VdfKeys}

\* The quoted syntax the tokenizer reads: a quote or a backslash inside a
\* quoted string is written with a backslash before it.
RECURSIVE escape(_)
escape(text) ==
    IF text = << >>
    THEN << >>
    ELSE (IF Head(text) \in {Quote, Backslash}
          THEN <<Backslash, Head(text)>>
          ELSE <<Head(text)>>) \o escape(Tail(text))

quoted(text) == <<Quote>> \o escape(text) \o <<Quote>>

\* "key" "value" and "key" { ... } for the keys of the mapping, in order.
RECURSIVE serialize(_, _)
serialize(map, order) ==
    IF order = << >>
    THEN << >>
    ELSE LET key == Head(order)
         IN  (IF key \in DOMAIN map
              THEN quoted(key) \o <<Space>>
                   \o (IF map[key].kind = "str"
                       THEN quoted(map[key].text)
                       ELSE <<"{", Space>> \o serialize(map[key].map, VdfKeyOrder)
                            \o <<"}">>)
                   \o <<Space>>
              ELSE << >>)
             \o serialize(map, Tail(order))

\* The end of a quoted string that opens at position i - 1 of the content:
\* the position of its closing quote, or 0 when the content ends first.
\* [^"\\]* and \\. are stepped over; the first bare quote closes.
RECURSIVE closing_quote(_, _)
closing_quote(content, i) ==
    IF i > Len(content) THEN 0
    ELSE IF content[i] = Quote THEN i
    ELSE IF content[i] = Backslash
         THEN IF i + 1 > Len(content) THEN 0 ELSE closing_quote(content, i + 2)
    ELSE closing_quote(content, i + 1)

\* \S+ from position i: the position after the run of non-space characters.
RECURSIVE bare_end(_, _)
bare_end(content, i) ==
    IF i > Len(content) \/ content[i] = Space THEN i ELSE bare_end(content, i + 1)

\* token_pattern.finditer(content) from position i: the tokens in order.
\* A quoted token keeps the characters between its quotes as they are.
RECURSIVE tokens(_, _)
tokens(content, i) ==
    IF i > Len(content) THEN << >>
    ELSE IF content[i] = Space THEN tokens(content, i + 1)
    ELSE IF content[i] = Quote /\ closing_quote(content, i + 1) # 0
         THEN LET j == closing_quote(content, i + 1)
              IN  <<[kind |-> "token", text |-> SubSeq(content, i + 1, j - 1)]>>
                  \o tokens(content, j + 1)
    ELSE IF content[i] = "{"
         THEN <<[kind |-> "open", text |-> << >>]>> \o tokens(content, i + 1)
    ELSE IF content[i] = "}"
         THEN <<[kind |-> "close", text |-> << >>]>> \o tokens(content, i + 1)
    ELSE LET j == bare_end(content, i)
         IN  <<[kind |-> "token", text |-> SubSeq(content, i, j - 1)]>>
             \o tokens(content, j)

\* stack[-1][key] = node, on a stack of frames [key, map]: the frame's own
\* key is the one its mapping hangs under in the frame below.
SetTop(stack, key, node) ==
    [stack EXCEPT ![Len(stack)].map = Upsert(stack[Len(stack)].map, key, node)]

\* The bottom frame alone: what the root holds without the dicts that are
\* still open.
collapse_closed(stack) == stack[1].map

\* The mappings of the stack hung into one another: the dict the bottom
\* frame has become, each nested dict being the object its parent holds.
RECURSIVE collapse(_)
collapse(stack) ==
    IF Len(stack) = 1
    THEN stack[1].map
    ELSE LET top == stack[Len(stack)]
             below == SubSeq(stack, 1, Len(stack) - 1)
         IN  collapse(SetTop(below, top.key, MapNode(top.map)))

\* No key is pending.
NoKey == [set |-> FALSE, text |-> << >>]

\* The body of the loop of parse_vdf for one token: the stack and the
\* pending key after it.
parse_step(t, stack, current_key) ==
    IF t.kind = "open"
    THEN IF current_key.set
         THEN [stack |-> Append(stack, [key |-> current_key.text, map |-> EmptyMap]),
               current_key |-> NoKey]
         ELSE [stack |-> stack, current_key |-> current_key]
    ELSE IF t.kind = "close"
    THEN IF Len(stack) > 1
         THEN LET top == stack[Len(stack)]
                  below == SubSeq(stack, 1, Len(stack) - 1)
              IN  [stack |-> SetTop(below, top.key, MapNode(top.map)),
                   current_key |-> current_key]
         ELSE [stack |-> stack, current_key |-> current_key]
    ELSE IF ~current_key.set
         THEN [stack |-> stack, current_key |-> [set |-> TRUE, text |-> t.text]]
         ELSE [stack |-> SetTop(stack, current_key.text, StrNode(t.text)),
               current_key |-> NoKey]

\* The loop of parse_vdf over the tokens, with the pending key.
RECURSIVE parse_tokens(_, _, _)
parse_tokens(toks, stack, current_key) ==
    IF toks = << >>
    THEN collapse(stack)
    ELSE LET s == parse_step(Head(toks), stack, current_key)
         IN  parse_tokens(Tail(toks), s.stack, s.current_key)

\* stack = [result]
RootStack == <<[key |-> << >>, map |-> EmptyMap]>>

parse_vdf(content) == parse_tokens(tokens(content, 1), RootStack, NoKey)

\* A mapping is drawn, written out and parsed.
InitVdf ==
    /\ game_tags = << >>
    /\ game_stats = << >>
    /\ hltb_cache = << >>
    /\ settings = [in_progress_threshold |-> <<"6", "0">>]
    /\ sync_in_progress = FALSE
    /\ sync_current = 0
    /\ sync_total = 0
    /\ lib = [p \in Procs |-> IdleRun]
    /\ last = Did("init", "", "success_true")
    /\ work = 0
    /\ cin \in VdfMappings
    /\ cout = [done |-> FALSE, parsed |-> EmptyMap]
    /\ sweeper = SweeperStart
    /\ handed = NothingHanded
    /\ inflight = NoSync
    /\ connection = "open"

ParseVdf ==
    /\ ~cout.done
    /\ cout' = [done |-> TRUE, parsed |-> parse_vdf(serialize(cin, VdfKeyOrder))]
    /\ UNCHANGED <<game_tags, game_stats, hltb_cache, settings, Progress, lib, last,
                   work, cin, sweeper, handed, inflight, connection>>

NextVdf == ParseVdf

SpecVdf == InitVdf /\ [][NextVdf]_vars

\* ------------------------------------------------ parse_vdf, token by token

\* The longest content, in tokens.
MaxVdfTokens == 4

\* Contents of braces, a bare word and a quoted word in any order,
\* balanced or not.
VdfContents ==
    LET pieces == {<<"{">>, <<"}">>, <<"a">>, <<Quote, "b", Quote>>}
        C[n \in 0 .. MaxVdfTokens] ==
            IF n = 0
            THEN {<< >>}
            ELSE {c \o <<Space>> \o p : c \in C[n - 1], p \in pieces}
    IN  UNION {C[n] : n \in 0 .. MaxVdfTokens}

\* A content is drawn and tokenized; the loop has not begun.
InitVdfTokens ==
    /\ game_tags = << >>
    /\ game_stats = << >>
    /\ hltb_cache = << >>
    /\ settings = [in_progress_threshold |-> <<"6", "0">>]
    /\ sync_in_progress = FALSE
    /\ sync_current = 0
    /\ sync_total = 0
    /\ lib = [p \in Procs |-> IdleRun]
    /\ last = Did("init", "", "success_true")
    /\ work = 0
    /\ cin \in VdfContents
    /\ cout = [done |-> FALSE, toks |-> tokens(cin, 1), token |-> "none",
               stack |-> RootStack, current_key |-> NoKey, parsed |-> EmptyMap]
    /\ sweeper = SweeperStart
    /\ handed = NothingHanded
    /\ inflight = NoSync
    /\ connection = "open"

\* One turn of the loop of parse_vdf.
VdfToken ==
    /\ ~cout.done
    /\ cout.toks # << >>
    /\ LET s == parse_step(Head(cout.toks), cout.stack, cout.current_key)
       IN  cout' = [cout EXCEPT !.toks = Tail(cout.toks),
                                !.token = Head(cout.toks).kind,
                                !.stack = s.stack,
                                !.current_key = s.current_key]
    /\ UNCHANGED <<game_tags, game_stats, hltb_cache, settings, Progress, lib, last,
                   work, cin, sweeper, handed, inflight, connection>>

\* The tokens are used up: return result.
VdfReturn ==
    /\ ~cout.done
    /\ cout.toks = << >>
    /\ cout' = [cout EXCEPT !.done = TRUE, !.parsed = collapse(cout.stack)]
    /\ UNCHANGED <<game_tags, game_stats, hltb_cache, settings, Progress, lib, last,
                   work, cin, sweeper, handed, inflight, connection>>

NextVdfTokens == VdfToken \/ VdfReturn

\* The loop is a plain for loop: it goes on to its end.
SpecVdfTokens == InitVdfTokens /\ [][NextVdfTokens]_vars /\ WF_vars(NextVdfTokens)

\* ------------------------------------------------- the binary shortcuts file

\* b'\x01AppName\x00' and b'\x02appid\x00'
NameMarker == <<1, 65, 112, 112, 78, 97, 109, 101, 0>>

IdMarker == <<2, 97, 112, 112, 105, 100, 0>>

\* content.find(pattern, pos): positions count from 0; -1 when there is none.
find(content, pattern, pos) ==
    LET hits == {i \in pos .. (Len(content) - Len(pattern)) :
                    SubSeq(content, i + 1, i + Len(pattern)) = pattern}
    IN  IF hits = {} THEN 0 - 1 ELSE CHOOSE i \in hits : \A j \in hits : i <= j

\* content[from:to]
slice(content, from, to) == SubSeq(content, from + 1, to)

\* decode('utf-8', errors='ignore') of bytes that are ASCII or 0xFF: the
\* byte that can never be part of UTF-8 is dropped.
decode(bytes) == SelectSeq(bytes, LAMBDA b : b < 128)

\* An appid of four bytes read with the other end first.
from_bytes_big(bytes) ==
    [hi |-> bytes[1] * 256 + bytes[2], lo |-> bytes[3] * 256 + bytes[4]]

\* int.from_bytes(appid_bytes, 'little'), as its two 16-bit halves: the id
\* is hi * 65536 + lo.
from_bytes_little(bytes) ==
    [hi |-> bytes[4] * 256 + bytes[3], lo |-> bytes[2] * 256 + bytes[1]]

\* A turn of the loop that leaves the cursor at the name marker it found.
scan_turn_at_marker(content, pos, games) ==
    LET appname_marker == find(content, NameMarker, pos)
    IN  [break |-> appname_marker = 0 - 1,
         pos |-> appname_marker,
         games |-> Append(games, [appid |-> [hi |-> 0, lo |-> 1], name |-> <<69>>,
                                  playtime_minutes |-> 0, is_non_steam |-> TRUE])]

\* One turn of the loop of _parse_shortcuts_binary with the cursor at pos:
\* whether it breaks, and the cursor and the records after it.
scan_turn(content, pos, games) ==
    LET appname_marker == find(content, NameMarker, pos)
        name_start == appname_marker + Len(NameMarker)
        name_end == find(content, <<0>>, name_start)
        app_name == decode(slice(content, name_start, name_end))
        appid_marker == find(content, IdMarker, pos)
        appid_start == appid_marker + Len(IdMarker)
        has_appid == /\ appid_marker # 0 - 1
                     /\ appid_marker < appname_marker + ShortcutWindow
                     /\ appid_start + 4 <= Len(content)
        appid == from_bytes_little(slice(content, appid_start, appid_start + 4))
    IN  IF appname_marker = 0 - 1 \/ name_end = 0 - 1
        THEN [break |-> TRUE, pos |-> pos, games |-> games]
        ELSE [break |-> FALSE,
              pos |-> name_end + 1,
              games |-> IF app_name # << >> /\ has_appid
                           /\ (appid.hi # 0 \/ appid.lo # 0)
                        THEN Append(games, [appid |-> appid, name |-> app_name,
                                            playtime_minutes |-> 0,
                                            is_non_steam |-> TRUE])
                        ELSE games]

\* The loop of _parse_shortcuts_binary from position pos.
RECURSIVE parse_shortcuts_binary(_, _, _)
parse_shortcuts_binary(content, pos, games) ==
    IF pos >= Len(content)
    THEN games
    ELSE LET turn == scan_turn(content, pos, games)
         IN  IF turn.break
             THEN games
             ELSE parse_shortcuts_binary(content, turn.pos, turn.games)

\* The buffers: one shortcut whose id field stands before its name (as Steam
\* writes it) or after it, with other fields between the two, and the same
\* buffer cut off inside the name.
to_bytes_little(id) == <<id.lo % 256, id.lo \div 256, id.hi % 256, id.hi \div 256>>

ShortcutBuffers ==
    LET Fill(n) == [i \in 1 .. n |-> 8]
        Names == {<<69>>, <<69, 109, 117>>}
        Ids == {[hi |-> 45776, lo |-> 24107], [hi |-> 32768, lo |-> 256], [hi |-> 0, lo |-> 1]}
        Headers == {<< >>, <<0, 115, 0, 0, 48, 0>>}
        IdFirst(head, name, id, gap) ==
            [kind |-> "pair", name |-> name, id |-> id,
             distance |-> Len(IdMarker) + 4 + gap,
             content |-> head \o IdMarker \o to_bytes_little(id) \o Fill(gap)
                         \o NameMarker \o name \o <<0>> \o Fill(2)]
        NameFirst(head, name, id, gap) ==
            [kind |-> "pair", name |-> name, id |-> id,
             distance |-> Len(NameMarker) + Len(name) + 1 + gap,
             content |-> head \o NameMarker \o name \o <<0>> \o Fill(gap)
                         \o IdMarker \o to_bytes_little(id) \o Fill(2)]
        Truncated(head, name, id, with_id) ==
            [kind |-> "truncated", name |-> name, id |-> id, distance |-> 0,
             content |-> head
                         \o (IF with_id THEN IdMarker \o to_bytes_little(id) ELSE << >>)
                         \o NameMarker \o name]
    IN  UNION {{IdFirst(h, n, id, 0), IdFirst(h, n, id, 3),
                IdFirst(h, n, id, ShortcutWindow),
                NameFirst(h, n, id, 0),
                NameFirst(h, n, id, ShortcutWindow - Len(NameMarker) - Len(n) - 2),
                NameFirst(h, n, id, ShortcutWindow - Len(NameMarker) - Len(n) - 1),
                Truncated(h, n, id, TRUE), Truncated(h, n, id, FALSE)} :
               h \in Headers, n \in Names, id \in Ids}

\* A buffer is drawn and parsed.
InitShortcuts ==
    /\ game_tags = << >>
    /\ game_stats = << >>
    /\ hltb_cache = << >>
    /\ settings = [in_progress_threshold |-> <<"6", "0">>]
    /\ sync_in_progress = FALSE
    /\ sync_current = 0
    /\ sync_total = 0
    /\ lib = [p \in Procs |-> IdleRun]
    /\ last = Did("init", "", "success_true")
    /\ work = 0
    /\ cin \in ShortcutBuffers
    /\ cout = [done |-> FALSE, games |-> << >>]
    /\ sweeper = SweeperStart
    /\ handed = NothingHanded
    /\ inflight = NoSync
    /\ connection = "open"

ParseShortcuts ==
    /\ ~cout.done
    /\ cout' = [done |-> TRUE, games |-> parse_shortcuts_binary(cin.content, 0, << >>)]
    /\ UNCHANGED <<game_tags, game_stats, hltb_cache, settings, Progress, lib, last,
                   work, cin, sweeper, handed, inflight, connection>>

NextShortcuts == ParseShortcuts

SpecShortcuts == InitShortcuts /\ [][NextShortcuts]_vars

\* ------------------------------------------- the shortcuts scan, turn by turn

\* Buffers of one or two shortcuts, each with its name field before its id
\* field or each with the id field first, fields of other kinds between and
\* around them, whole or cut off inside the last name.
ScanBuffers ==
    LET Fill(n) == [i \in 1 .. n |-> 8]
        Names == <<<<69>>, <<69, 109, 117>>>>
        Ids == <<[hi |-> 45776, lo |-> 24107], [hi |-> 32768, lo |-> 256]>>
        Entry(layout, i, gap) ==
            IF layout = "name_first"
            THEN NameMarker \o Names[i] \o <<0>> \o Fill(gap)
                 \o IdMarker \o to_bytes_little(Ids[i]) \o Fill(2)
            ELSE IdMarker \o to_bytes_little(Ids[i]) \o Fill(gap)
                 \o NameMarker \o Names[i] \o <<0>> \o Fill(2)
        Cut(layout, i) ==
            IF layout = "name_first"
            THEN NameMarker \o Names[i]
            ELSE IdMarker \o to_bytes_little(Ids[i]) \o NameMarker \o Names[i]
        Whole(head, layout, order, gap) ==
            [layout |-> layout, whole |-> TRUE,
             names |-> [i \in DOMAIN order |-> Names[order[i]]],
             ids |-> [i \in DOMAIN order |-> Ids[order[i]]],
             content |-> head
                         \o (IF Len(order) = 0 THEN << >> ELSE Entry(layout, order[1], gap))
                         \o (IF Len(order) < 2 THEN << >> ELSE Entry(layout, order[2], gap))]
        CutOff(head, layout, order, gap) ==
            [layout |-> layout, whole |-> FALSE,
             names |-> <<Names[order[1]]>>,
             ids |-> <<Ids[order[1]]>>,
             content |-> head \o Entry(layout, order[1], gap) \o Cut(layout, order[2])]
    IN  UNION {{Whole(h, l, o, g) : o \in {<< >>, <<1>>, <<2>>, <<1, 2>>, <<2, 1>>}}
               \cup {CutOff(h, l, o, g) : o \in {<<1, 2>>, <<2, 1>>}} :
               h \in {<< >>, <<0, 115, 0, 0, 48, 0>>},
               l \in {"name_first", "id_first"},
               g \in {0, 3}}

\* A buffer is drawn; games = [] and pos = 0.
InitScan ==
    /\ game_tags = << >>
    /\ game_stats = << >>
    /\ hltb_cache = << >>
    /\ settings = [in_progress_threshold |-> <<"6", "0">>]
    /\ sync_in_progress = FALSE
    /\ sync_current = 0
    /\ sync_total = 0
    /\ lib = [p \in Procs |-> IdleRun]
    /\ last = Did("init", "", "success_true")
    /\ work = 0
    /\ cin \in ScanBuffers
    /\ cout = [done |-> FALSE, pos |-> 0, games |-> << >>]
    /\ sweeper = SweeperStart
    /\ handed = NothingHanded
    /\ inflight = NoSync
    /\ connection = "open"

\* One turn of the loop: the records and the cursor move on.
ScanTurn ==
    /\ ~cout.done
    /\ cout.pos < Len(cin.content)
    /\ ~scan_turn(cin.content, cout.pos, cout.games).break
    /\ LET turn == scan_turn(cin.content, cout.pos, cout.games)
       IN  cout' = [done |-> FALSE, pos |-> turn.pos, games |-> turn.games]
    /\ UNCHANGED <<game_tags, game_stats, hltb_cache, settings, Progress, lib, last,
                   work, cin, sweeper, handed, inflight, connection>>

\* The loop is left, by its condition or by a break: return games.
ScanReturn ==
    /\ ~cout.done
    /\ \/ cout.pos >= Len(cin.content)
       \/ scan_turn(cin.content, cout.pos, cout.games).break
    /\ cout' = [cout EXCEPT !.done = TRUE]
    /\ UNCHANGED <<game_tags, game_stats, hltb_cache, settings, Progress, lib, last,
                   work, cin, sweeper, handed, inflight, connection>>

NextScan == ScanTurn \/ ScanReturn

\* The loop has no await: it runs on turn after turn.
SpecScan == InitScan /\ [][NextScan]_vars /\ WF_vars(NextScan)

\* ------------------------------------------------- the settings calls

\* INSERT OR IGNORE of init_database.
SeededSettings ==
    [auto_tag_enabled |-> TrueText, mastered_multiplier |-> <<"1", ".", "5">>,
     in_progress_threshold |-> <<"6", "0">>, cache_ttl |-> <<"7", "2", "0", "0">>]

SettingValues ==
    {Bool(TRUE), Bool(FALSE), Float(425, 1), Float(30, 0), Float(5, 2),
     Str(<<"t", "e", "s", "t", "_", "v", "a", "l", "u", "e">>), Str(<< >>),
     Str(TrueText), Str(<<"T", "r", "u", "e">>), Str(<<"4", "2">>),
     Str(<<" ", "7", ".", "5">>)}

InitSettings ==
    /\ game_tags = << >>
    /\ game_stats = << >>
    /\ hltb_cache = << >>
    /\ settings = SeededSettings
    /\ sync_in_progress = FALSE
    /\ sync_current = 0
    /\ sync_total = 0
    /\ lib = [p \in Procs |-> IdleRun]
    /\ last = Did("init", "", "success_true")
    /\ work = 0
    /\ cin = NoInput
    /\ cout = NoValue
    /\ sweeper = SweeperStart
    /\ handed = NothingHanded
    /\ inflight = NoSync
    /\ connection = "open"

SetSetting(key, value) ==
    /\ Unit
    /\ settings' = Upsert(settings, key, str(value))
    /\ last' = [key |-> key, value |-> value] @@ Did("set_setting", "", "success_true")
    /\ UNCHANGED <<game_tags, game_stats, hltb_cache, Progress, lib, cin, cout,
                   sweeper, handed, inflight, connection>>

GetSetting(key, default) ==
    /\ Unit
    /\ last' = [key |-> key, default |-> default,
                returned |-> get_setting(settings, key, default)]
               @@ Did("get_setting", "", "success_true")
    /\ UNCHANGED <<game_tags, game_stats, hltb_cache, settings, Progress, lib, cin,
                   cout, sweeper, handed, inflight, connection>>

GetAllSettings ==
    /\ Unit
    /\ last' = [returned |-> get_all_settings(settings)]
               @@ Did("get_all_settings", "", "success_true")
    /\ UNCHANGED <<game_tags, game_stats, hltb_cache, settings, Progress, lib, cin,
                   cout, sweeper, handed, inflight, connection>>

NextSettings ==
    LET keys == {"in_progress_threshold", "test_setting", "other_setting"}
    IN  \/ \E key \in keys, value \in SettingValues : SetSetting(key, value)
        \/ \E key \in keys, default \in {None, Float(DefaultInProgress, 0)} :
              GetSetting(key, default)
        \/ GetAllSettings

SpecSettings == InitSettings /\ [][NextSettings]_vars

\* ----------------------------------------------------------- the tag table

\* db.set_tag(appid, tag, is_manual) and db.get_tag(appid) called on the
\* store itself, as the backend test does.
SetTag(appid, tag, is_manual) ==
    /\ Unit
    /\ game_tags' = set_tag(game_tags, appid, tag, is_manual)
    /\ last' = [tag |-> tag, is_manual |-> is_manual, before |-> get_tag(game_tags, appid)]
               @@ Did("set_tag", appid,
                      IF set_tag_ok(tag) THEN "success_true" ELSE "success_false")
    /\ UNCHANGED <<game_stats, hltb_cache, settings, Progress, lib, cin, cout, sweeper, handed, inflight, connection>>

NextStore ==
    \/ \E appid \in Games, tag \in Tags, is_manual \in BOOLEAN : SetTag(appid, tag, is_manual)
    \/ \E appid \in Games : RemoveTag(appid)
    \/ \E appid \in Games : GetGameTag(appid)

SpecStore == Init /\ [][NextStore]_vars

\* ------------------------------------- a single-game sync, step by step

\* sync_game_with_playtime up to the first await after db.get_tag: the tag
\* row is in current_tag and the call is suspended.
SyncReadsTag(appid, playtime, ach, rt) ==
    /\ inflight.pc = "idle"
    /\ Unit
    /\ inflight' = [pc |-> "read", appid |-> appid,
                    current_tag |-> get_tag(game_tags, appid),
                    playtime |-> playtime, ach |-> ach, rt |-> rt]
    /\ last' = Did("sync_game_with_playtime", appid, "pending")
    /\ UNCHANGED <<game_tags, game_stats, hltb_cache, settings, Progress, lib, cin, cout,
                   sweeper, handed, connection>>

\* The rest of the call, resumed: is_manual and current_tag_value come from
\* the row read before the await, everything else from the tables as they
\* are now, and the write goes to the tag table as it is now.
SyncResumes(lookup) ==
    /\ inflight.pc = "read"
    /\ LET appid == inflight.appid
           as_read == [DB EXCEPT !.tags =
                          IF inflight.current_tag = NoTag
                          THEN Delete(game_tags, appid)
                          ELSE Upsert(game_tags, appid, inflight.current_tag)]
           r == sync_game_with_playtime(as_read, appid, inflight.playtime,
                                        inflight.ach, lookup, inflight.rt)
       IN  /\ game_tags' = IF r.tag_changed
                           THEN set_tag(game_tags, appid, r.calculated_tag, FALSE)
                           ELSE game_tags
           /\ game_stats' = r.stats
           /\ hltb_cache' = r.cache
           /\ last' = [Did("sync_game_with_playtime", appid, "no_indicator")
                          EXCEPT !.ach = (inflight.ach # NoAch),
                                 !.changed = r.tag_changed, !.rt = inflight.rt]
    /\ inflight' = NoSync
    /\ UNCHANGED <<settings, Progress, lib, work, cin, cout, sweeper, handed, connection>>

\* A manual tag set or removed while a single-game sync is suspended.
NextRace ==
    \/ \E appid \in Games, playtime \in {0, 120}, ach \in AchInputs :
          SyncReadsTag(appid, playtime, ach, NoValue)
    \/ \E lookup \in LibLookups : SyncResumes(lookup)
    \/ \E appid \in Games, tag \in Tags : SetManualTag(appid, tag)
    \/ \E appid \in Games : RemoveTag(appid)

SpecRace == Init /\ [][NextRace]_vars

\* ---------------------------------------- two library-wide syncs at once

\* Two callers of sync_library_with_playtime, each with its own loop over
\* its own map, sharing the store and the progress triple.
Callers == {1, 2}

OverlapKeys == {<<"440">>, <<"440", "3000000555">>}

InitOverlap ==
    /\ game_tags = << >>
    /\ game_stats = << >>
    /\ hltb_cache = << >>
    /\ settings = [in_progress_threshold |-> <<"6", "0">>]
    /\ sync_in_progress = FALSE
    /\ sync_current = 0
    /\ sync_total = 0
    /\ lib = [p \in Callers |-> IdleRun]
    /\ last = Did("init", "", "success_true")
    /\ work = 0
    /\ cin = NoInput
    /\ cout = "unused"
    /\ sweeper = SweeperStart
    /\ handed = NothingHanded
    /\ inflight = NoSync
    /\ connection = "open"

NextOverlap ==
    \/ \E p \in Callers, keys \in OverlapKeys : StartLibrary(p, "game_data", keys)
    \/ \E p \in Callers, given \in {EmptyInfo, [shape |-> "dict", playtime |-> 120, rt |-> NoValue]},
          lookup \in LibLookups : LibraryGame(p, given, NoAch, lookup)
    \/ \E p \in Callers : LibraryReturn(p)

SpecOverlap == InitOverlap /\ [][NextOverlap]_vars

\* ------------------------------------- every call beside a library sync

\* One library-wide sync among the calls that are not one: single-game
\* syncs, the forced reset, manual tags, settings updates, the two tag
\* reports and the dropped sweep.
NextFrame ==
    \/ \E appid \in Games : SetManualTag(appid, "completed")
    \/ \E appid \in Games : RemoveTag(appid)
    \/ \E appid \in Games, fs \in SetupFileStats, lookup \in LibLookups :
          SyncSingleGame(appid, fs, lookup)
    \/ \E appid \in Games, fs \in SetupFileStats, lookup \in LibLookups :
          ResetToAutoTag(appid, fs, lookup)
    \/ \E appid \in Games, lookup \in LibLookups :
          SyncGameWithPlaytime(appid, 120, NoAch, lookup, NoValue)
    \/ \E minutes \in ThresholdInputs :
          SetSetting("in_progress_threshold", Float(minutes, 0))
    \/ GetTagStatistics
    \/ GetAllTagsWithNames
    \/ CheckDroppedGames(DroppedDays)
    \/ SweeperWake
    \/ SweepFinish
    \/ \E p \in Procs, shape \in ArgShapes, keys \in OverlapKeys : StartLibrary(p, shape, keys)
    \/ \E p \in Procs, given \in LibInfos, lookup \in LibLookups :
          LibraryGame(p, given, NoAch, lookup)
    \/ \E p \in Procs : LibraryGameFails(p)
    \/ \E p \in Procs : LibraryReturn(p)

SpecFrame == Init /\ [][NextFrame]_vars

\* ------------------------------------------------------------ properties

ManualGames == {g \in DOMAIN game_tags : game_tags[g].is_manual}

NonForcedSyncOps ==
    {"sync_single_game", "sync_game_with_playtime",
     "library_start", "library_game", "sync_library_with_playtime"}

\* C1: every step of a non-forced sync (sync_single_game, a lone
\* sync_game_with_playtime, or any step of a library-wide sync) leaves the
\* tag record of every manually tagged game as it was: same tag, still manual.
C1_ManualOverrideKept ==
    [][last'.op \in NonForcedSyncOps =>
          \A g \in ManualGames : g \in DOMAIN game_tags' /\ game_tags'[g] = game_tags[g]]_vars

\* A library-wide sync has just refreshed the stats of a manually tagged game.
C1_Witness ==
    /\ last.op = "library_game"
    /\ last.outcome = "synced"
    /\ last.appid \in ManualGames
    /\ game_stats[last.appid].playtime_minutes = 120
    /\ game_tags[last.appid].tag = "in_progress"

\* C2 as claimed: when reset_to_auto_tag returns for a manually tagged game
\* (the store answering), the game has no manual tag record and its tag is
\* the classifier's result on the refreshed stats, "none" meaning no record.
C2_ForcedResetClears ==
    [][(/\ last'.op = "reset_to_auto_tag"
        /\ ~last'.error
        /\ last'.appid \in ManualGames)
       => /\ last'.appid \notin ManualGames'
          /\ current_tag_value(game_tags', last'.appid)
                = calculate_auto_tag(DB', last'.appid)]_vars

\* The five rules as the claim words them, on a classifier input.
Percent(stats) == (stats.unlocked_achievements * 100) \div stats.total_achievements

StaleLastPlayed(stats) ==
    /\ stats.rt_last_time_played # NoValue
    /\ stats.rt_last_time_played # 0
    /\ Now - stats.rt_last_time_played > 365 * 86400

ClaimedTag(in) ==
    IF in.stats.total_achievements > 0 /\ Percent(in.stats) >= 85 THEN "mastered"
    ELSE IF in.has_hltb /\ in.main_story # NoValue
            /\ in.stats.playtime_minutes >= in.main_story * 60 THEN "completed"
    ELSE IF StaleLastPlayed(in.stats) THEN "dropped"
    ELSE IF in.stats.playtime_minutes >= in.threshold THEN "in_progress"
    ELSE "none"

\* The same with rule (2) asking for a nonzero h.
AmendedTag(in) ==
    IF in.stats.total_achievements > 0 /\ Percent(in.stats) >= 85 THEN "mastered"
    ELSE IF in.has_hltb /\ in.main_story # NoValue /\ in.main_story # 0
            /\ in.stats.playtime_minutes >= in.main_story * 60 THEN "completed"
    ELSE IF StaleLastPlayed(in.stats) THEN "dropped"
    ELSE IF in.stats.playtime_minutes >= in.threshold THEN "in_progress"
    ELSE "none"

\* C3 as claimed: the classifier returns the first match of mastered (>= 85%
\* of the achievements), completed (a cache entry with main-story hours h and
\* playtime >= h*60), dropped (last played present, nonzero, over 365 days
\* ago), in_progress (playtime >= threshold), else none.
C3_AsClaimed == cout # "pending" => cout = ClaimedTag(cin)

\* C3, amended: the same first-match order, with completed asking for a cache
\* entry whose main-story hours h are non-null and nonzero; the result is
\* always one of the five.
C3_ClassifierPriority ==
    cout # "pending" =>
        /\ cout \in {"mastered", "completed", "dropped", "in_progress", "none"}
        /\ cout = AmendedTag(cin)

\* 85% of the achievements and a stale last-played: mastered, not dropped.
C3_Witness ==
    /\ cout = "mastered"
    /\ cin.stats.unlocked_achievements = 17
    /\ cin.stats.rt_last_time_played = OneYearAgo - 1

NeitherMasteredNorCompleted(g) ==
    /\ g \in DOMAIN game_stats
    /\ ~(game_stats[g].total_achievements > 0 /\ Percent(game_stats[g]) >= 85)
    /\ ~(/\ g \in DOMAIN hltb_cache
         /\ hltb_cache[g].main_story # NoValue
         /\ hltb_cache[g].main_story # 0
         /\ game_stats[g].playtime_minutes >= hltb_cache[g].main_story * 60)

\* C4 as claimed: a sync_game_with_playtime of a Steam game without a manual
\* tag that leaves it neither mastered nor completed stores the tag dropped
\* when given a last-played timestamp 365*86400 + 1 seconds old, and does not
\* when the timestamp is exactly 365*86400 seconds old.
C4_DroppedBoundary ==
    [][\A appid \in Games, playtime \in Playtimes, ach \in AchInputs, lookup \in Lookups,
          rt \in {OneYearAgo, OneYearAgo - 1} :
          (/\ SyncGameWithPlaytime(appid, playtime, ach, lookup, rt)
           /\ appid \notin ManualGames
           /\ ~is_non_steam(appid)
           /\ NeitherMasteredNorCompleted(appid)')
          => ((current_tag_value(game_tags', appid) = "dropped") <=> (rt = OneYearAgo - 1))]_vars

\* C5 as claimed: every completion-cache entry has similarity >= 0.7 and a
\* non-null main-story duration.
C5_CacheWriteGate ==
    \A g \in DOMAIN hltb_cache :
        /\ hltb_cache[g].similarity >= 70
        /\ hltb_cache[g].main_story # NoValue

\* The three rows of a game, each as the set holding the row if there is one.
RowsOf(g) ==
    <<IF g \in DOMAIN game_stats THEN {game_stats[g]} ELSE {},
      IF g \in DOMAIN game_tags THEN {game_tags[g]} ELSE {},
      IF g \in DOMAIN hltb_cache THEN {hltb_cache[g]} ELSE {}>>

\* The keys of the map of the library-wide sync that takes the step.
MapKeys(p) == SeqElems(IF lib[p].pc = "loop" THEN lib[p].keys ELSE lib'[p].keys)

\* C6: every step of a library-wide sync, from its start to its return,
\* leaves the stats row, the tag record and the cache entry of every game
\* whose id is not a key of the supplied map exactly as they were.
C6_LibraryFrame ==
    [][\A p \in Procs : lib'[p] # lib[p] =>
          \A g \in Games \ MapKeys(p) : RowsOf(g)' = RowsOf(g)]_vars

\* A library-wide sync over one id has returned, having synced that game,
\* while the other game keeps the rows an earlier sync gave it.
C6_Witness ==
    /\ last.op = "sync_library_with_playtime"
    /\ last.n = 1
    /\ last.result.synced = 1
    /\ \E g \in Games, h \in Games :
          /\ g # h
          /\ h \in DOMAIN game_stats
          /\ game_stats[h].playtime_minutes = 60
          /\ g \in DOMAIN game_tags
          /\ g \in DOMAIN hltb_cache
          /\ g \in DOMAIN game_stats
          /\ game_stats[g].playtime_minutes = 120

\* C7: a sync_game_with_playtime, alone or as a game of a library-wide sync,
\* that is given no live achievement data leaves the stored
\* total_achievements and unlocked_achievements of a game that has a stats
\* row as they were.
C7_AchievementsKept ==
    [][(/\ last'.op \in {"sync_game_with_playtime", "library_game"}
        /\ ~last'.ach
        /\ last'.appid \in DOMAIN game_stats)
       => /\ last'.appid \in DOMAIN game_stats'
          /\ game_stats'[last'.appid].total_achievements
                = game_stats[last'.appid].total_achievements
          /\ game_stats'[last'.appid].unlocked_achievements
                = game_stats[last'.appid].unlocked_achievements]_vars

\* A game synced earlier with 17 of 20 achievements has just been synced by
\* the library-wide sync with a new playtime and no achievement data.
C7_Witness ==
    /\ last.op = "library_game"
    /\ last.outcome = "synced"
    /\ ~last.ach
    /\ game_stats[last.appid].playtime_minutes = 60
    /\ game_stats[last.appid].total_achievements = 20
    /\ game_stats[last.appid].unlocked_achievements = 17

Min(a, b) == IF a < b THEN a ELSE b

\* C8 as claimed: a library-wide sync given a map returns success with
\* total = the number of ids of the map, synced + errors = total, and the
\* first min(errors, 10) failures as error samples.
C8_NeverAborts ==
    (last.op = "sync_library_with_playtime" /\ last.n # NoValue) =>
        /\ last.outcome = "success_true"
        /\ last.result.total = last.n
        /\ last.result.synced + last.result.errors = last.result.total
        /\ Len(last.result.details) = Min(last.result.errors, 10)

\* The progress triple of a library-wide sync in its loop, and out of it.
ProgressOf(p) ==
    IF lib[p].pc = "loop"
    THEN /\ sync_in_progress
         /\ sync_total = Len(lib[p].keys)
         /\ sync_current = lib[p].i
         /\ 0 <= sync_current
         /\ sync_current <= sync_total
    ELSE /\ ~sync_in_progress
         /\ sync_current = 0
         /\ sync_total = 0

\* C9: with one library-wide sync at a time, after every step: while the
\* sync is in its loop syncing is true, total is the number of ids and
\* current is the number of games processed, synced or failed, so within
\* 0..total; current does not decrease between two steps of the loop; and
\* once the sync has returned, normally or by failure, the triple is
\* (false, 0, 0).
C9_Progress ==
    [][\A p \in Procs :
          /\ ProgressOf(p)'
          /\ (lib[p].pc = "loop" /\ lib'[p].pc = "loop") => sync_current' >= sync_current]_vars

\* The first of two games has failed: current is 1 of 2.
C9_Witness ==
    /\ lib[1].pc = "loop"
    /\ last.op = "library_game"
    /\ last.outcome = "failed"
    /\ sync_in_progress
    /\ sync_current = 1
    /\ sync_total = 2

CallerFacingOps ==
    {"set_manual_tag", "remove_tag", "reset_to_auto_tag", "sync_single_game",
     "sync_library_with_playtime"}

\* C10 as claimed: a caller-facing operation never raises; its result
\* carries a success indicator.
C10_NoRaise ==
    last.op \in CallerFacingOps => last.outcome \in {"success_true", "success_false"}

\* ------------------------------------------------------------------- C11

\* C11 as claimed: when the underlying single-game sync fails with an
\* exception, sync_single_game and reset_to_auto_tag report success=false;
\* neither returns success=true for a sync that failed.
C11_FailureReported ==
    (last.op \in {"sync_single_game", "reset_to_auto_tag"} /\ last.error)
        => last.outcome = "success_false"

\* ------------------------------------------------------------------- C12

\* C12 as claimed: set_manual_tag with an id and one of the four tags
\* succeeds, and the game's tag is then that tag with is_manual true; with
\* any other tag, or a missing id or tag, it answers success false and the
\* tag store is unchanged.
C12_ManualTagValidated ==
    [][\A appid \in AppidArgs, tag \in TagArgs :
          SetManualTag(appid, tag) =>
              IF appid # "" /\ tag \in Tags
              THEN /\ last'.outcome = "success_true"
                   /\ appid \in DOMAIN game_tags'
                   /\ game_tags'[appid] = [tag |-> tag, is_manual |-> TRUE]
              ELSE /\ last'.outcome = "success_false"
                   /\ game_tags' = game_tags]_vars

\* ------------------------------------------------------------------- C13

\* The library-wide sync called again with what it was given: the same
\* per-game syncs in the same order, counting the tags they change.
RECURSIVE repeat_batch(_, _)
repeat_batch(db, given) ==
    IF given = <<>>
    THEN [db |-> db, new_tags |-> 0]
    ELSE LET e == Head(given)
             r == sync_game_with_playtime(db, e.appid, e.playtime, e.ach, e.lookup, e.rt)
             rest == repeat_batch([db EXCEPT !.tags = r.tags, !.stats = r.stats,
                                             !.cache = r.cache], Tail(given))
         IN  [db |-> rest.db,
              new_tags |-> rest.new_tags + (IF r.tag_changed THEN 1 ELSE 0)]

\* No other call has run since the library-wide sync began: all the work
\* done since is its own iterations.
Uninterrupted(run, started, done) == done - started = run.i

\* C13: a single-game sync repeated with the same inputs leaves tags,
\* stats and cache as the first call left them and reports tag_changed
\* false; a library-wide sync repeated over the games it has synced leaves
\* them as they are and counts new_tags 0.
C13_Idempotent ==
    [][/\ \A appid \in Games, ach \in AchInputs, lookup \in LibLookups :
             (/\ last'.op = "sync_game_with_playtime"
              /\ SyncGameWithPlaytime(appid, 120, ach, lookup, NoValue)) =>
                 LET again == sync_game_with_playtime(DB', appid, 120, ach, lookup, NoValue)
                 IN  /\ again.tags = game_tags'
                     /\ again.stats = game_stats'
                     /\ again.cache = hltb_cache'
                     /\ ~again.tag_changed
        /\ \A p \in Procs :
             (/\ lib'[p].pc = "loop"
              /\ lib'[p].i = lib[p].i + 1
              /\ Uninterrupted(lib'[p], handed'.started, work')) =>
                 LET batch == repeat_batch(DB', handed'.log)
                 IN  /\ batch.db = DB'
                     /\ batch.new_tags = 0]_vars

\* A library-wide sync has synced two games and tagged at least one.
C13_Witness ==
    \E p \in Procs :
        /\ lib[p].pc = "loop"
        /\ Uninterrupted(lib[p], handed.started, work)
        /\ Len(handed.log) = 2
        /\ lib[p].new_tags >= 1

\* ------------------------------------------------------------------- C14

\* C14 as claimed: in a single-game sync of a game that is neither manual
\* nor hidden, a classifier result that differs from the stored tag (none
\* against a stored tag and a tag against no stored tag included) replaces
\* it and tag_changed is true; an equal result writes nothing and
\* tag_changed is false.
C14_TagFollowsClassifier ==
    [][\A appid \in Games, playtime \in Playtimes, ach \in AchInputs,
          lookup \in Lookups, rt \in LastPlayedInputs :
          (/\ last'.op = "sync_game_with_playtime"
           /\ SyncGameWithPlaytime(appid, playtime, ach, lookup, rt)
           /\ appid \notin ManualGames
           /\ ~(is_non_steam(appid) /\ appid \notin DOMAIN hltb_cache')) =>
              LET calculated == calculate_auto_tag(DB', appid)
                  stored == IF appid \in DOMAIN game_tags
                            THEN game_tags[appid].tag ELSE "none"
                  stored_after == IF appid \in DOMAIN game_tags'
                                  THEN game_tags'[appid].tag ELSE "none"
              IN  IF calculated # stored
                  THEN stored_after = calculated /\ last'.changed
                  ELSE game_tags' = game_tags /\ ~last'.changed]_vars

\* ------------------------------------------------------------------- C15

\* C15 as claimed: in every reachable state a stored game has is_hidden
\* true exactly when its id is a synthetic non-Steam id and it has no
\* completion-cache entry.
C15_HiddenFlag ==
    \A appid \in DOMAIN game_stats :
        is_hidden_of(game_stats[appid])
            <=> (is_non_steam(appid) /\ appid \notin DOMAIN hltb_cache)

\* ------------------------------------------------------------------- C16

\* The stored games the data model calls hidden: a synthetic non-Steam id
\* without a completion-cache entry.
HiddenGames ==
    {g \in DOMAIN game_stats : is_non_steam(g) /\ g \notin DOMAIN hltb_cache}

\* The tagged games a report shows: the visible ones, and the hidden ones
\* whose tag is manual.
ReportedGames ==
    {g \in DOMAIN game_tags : g \notin HiddenGames \/ game_tags[g].is_manual}

\* C16 as claimed: get_tag_statistics counts under each tag the games with
\* that tag that are not hidden or are manually tagged, a hidden game with
\* a non-manual tag adding to no count, and get_all_tags_with_names lists
\* the same games.
C16_HiddenExcluded ==
    /\ last.op = "get_tag_statistics" =>
           \A tag \in Tags :
               last.counts[tag]
                   = Cardinality({g \in ReportedGames : game_tags[g].tag = tag})
    /\ last.op = "get_all_tags_with_names" => last.listed = ReportedGames

\* ------------------------------------------------------------------- C17

\* C17 as claimed, for the game the last sync was given a last-played
\* timestamp for: when that timestamp is older than the threshold of a
\* manual sweep and the game is not hidden, not manually tagged and not
\* yet dropped, completed or mastered, the sweep tags it dropped with
\* is_manual false and counts it.
C17_SweepTagsEligible ==
    [][\A days \in SweepThresholds :
          (/\ CheckDroppedGames(days)
           /\ last.op = "sync_game_with_playtime"
           /\ last.rt # NoValue
           /\ last.rt < Now - days * 24 * 60 * 60
           /\ last.appid \notin HiddenGames
           /\ last.appid \notin ManualGames
           /\ ~(last.appid \in DOMAIN game_tags
                /\ game_tags[last.appid].tag \in SweepKeeps)) =>
              /\ last.appid \in DOMAIN game_tags'
              /\ game_tags'[last.appid] = [tag |-> "dropped", is_manual |-> FALSE]
              /\ last'.dropped_count >= 1]_vars

\* ------------------------------------------------------------------- C18

\* C18: once _unload has requested the cancellation, wherever the task is
\* (its first sleep, the sleep between sweeps, inside a sweep), the task
\* eventually terminates; from the request on it runs no sweep, and once
\* terminated it stays so and writes no tag.
C18_Cancellable ==
    /\ sweeper.cancel ~> (sweeper.pc = "done")
    /\ [][sweeper.cancel => /\ sweeper'.cancel
                            /\ last'.op # "dropped_sweep"
                            /\ (sweeper.pc = "done" => sweeper' = sweeper)]_vars

\* The task was cancelled inside a sweep and is over.
C18_Witness ==
    /\ sweeper.pc = "done"
    /\ sweeper.stopped_in = "sweeping"

\* ------------------------------------------------------------------- C19

\* C19 as claimed: on a freshly initialized store whose settings nobody
\* changed the in-progress threshold is 30 minutes: the first sync of a
\* library game with no achievements, no cache entry and no last-played
\* timestamp tags it in_progress at 30 minutes of playtime and leaves it
\* without a tag at 29.
C19_FreshThreshold ==
    [][\A appid \in Games, lookup \in Lookups :
          (/\ last'.op = "sync_game_with_playtime"
           /\ ~is_non_steam(appid)
           /\ appid \notin DOMAIN game_tags
           /\ appid \notin DOMAIN game_stats
           /\ appid \notin DOMAIN hltb_cache') =>
              /\ SyncGameWithPlaytime(appid, 30, NoAch, lookup, NoValue) =>
                     /\ appid \in DOMAIN game_tags'
                     /\ game_tags'[appid] = [tag |-> "in_progress", is_manual |-> FALSE]
              /\ SyncGameWithPlaytime(appid, 29, NoAch, lookup, NoValue) =>
                     appid \notin DOMAIN game_tags']_vars

\* ------------------------------------------------------------------- C20

\* C20 as claimed: a nested mapping of string keys to strings or nested
\* mappings, written in the quoted key/value brace syntax and parsed by
\* parse_vdf, comes back as the same mapping.
C20_RoundTrip == cout.done => cout.parsed = cin

\* ------------------------------------------------------------------- C21

\* C21: a buffer with one well-formed name/id pair whose id marker is
\* within the 500-byte window of the name marker parses to exactly one
\* record with that id and name, playtime 0 and the non-Steam flag; a buffer
\* that ends inside the name parses to no record.
C21_ShortcutParsed ==
    cout.done =>
        /\ (cin.kind = "pair" /\ cin.distance < ShortcutWindow) =>
               cout.games = <<[appid |-> cin.id, name |-> cin.name,
                               playtime_minutes |-> 0, is_non_steam |-> TRUE]>>
        /\ cin.kind = "truncated" => cout.games = << >>

\* A pair whose id marker is the last position inside the window has been
\* parsed to one record.
C21_Witness ==
    /\ cout.done
    /\ cin.kind = "pair"
    /\ cin.distance = ShortcutWindow - 1
    /\ Len(cout.games) = 1

\* ------------------------------------------------------------------- C23

\* The text of a string value reads as a boolean or as a number.
ReadsAsOtherType(value) ==
    /\ value.type = "str"
    /\ \/ lower(value.text) \in {TrueText, FalseText}
       \/ float(value.text) # ValueError

\* The key of the last set_setting has not been written since.
RoundTrip(value) ==
    /\ get_setting(settings, last.key, None) = value
    /\ get_all_settings(settings)[last.key] = value

\* C23 as stated: after set_setting(key, value), for every bool, float and
\* string value, get_setting(key) and get_all_settings()[key] return the
\* value written; a key neither written nor seeded returns the default.
C23_EveryValueRoundTrips ==
    /\ last.op = "set_setting" => RoundTrip(last.value)
    /\ (last.op = "get_setting" /\ last.key \notin DOMAIN settings) =>
           last.returned = last.default

\* C23: after set_setting(key, value) of a bool, a float, or a string whose
\* text does not itself read as a boolean or a number, get_setting(key) and
\* get_all_settings()[key] return the value written; a key neither written
\* nor seeded returns the caller's default.
C23_SettingsRoundTrip ==
    /\ (last.op = "set_setting" /\ ~ReadsAsOtherType(last.value)) =>
           RoundTrip(last.value)
    /\ (last.op = "get_setting" /\ last.key \notin DOMAIN settings) =>
           last.returned = last.default

\* A float has been written over a seeded key.
C23_Witness ==
    /\ last.op = "set_setting"
    /\ last.key = "in_progress_threshold"
    /\ last.value = Float(425, 1)
    /\ settings["in_progress_threshold"] = <<"4", "2", ".", "5">>

\* ------------------------------------------------------------------- C22

\* C22: after a set_tag(id, tag, is_manual) that succeeds, get_tag(id)
\* returns that tag and that flag, whatever row the id had before (one row
\* per id, the last write wins), and the rows of the other ids are as they
\* were.
C22_TagRoundTrip ==
    [][(last'.op = "set_tag" /\ last'.outcome = "success_true") =>
          /\ get_tag(game_tags', last'.appid) =
                 [tag |-> last'.tag, is_manual |-> last'.is_manual]
          /\ \A other \in Games \ {last'.appid} :
                 get_tag(game_tags', other) = get_tag(game_tags, other)]_vars

\* A manual tag has replaced an automatic one of the same game.
C22_Witness ==
    /\ last.op = "set_tag"
    /\ last.before = [tag |-> "completed", is_manual |-> FALSE]
    /\ get_tag(game_tags, last.appid) = [tag |-> "mastered", is_manual |-> TRUE]

\* ------------------------------------------------------------------- C24

\* C24: a manual tag that is stored while an automatic writer of the same
\* game is in flight (a single-game sync that has read the tag row) is not
\* replaced by what that writer writes when it resumes.
C24_ManualTagSurvives ==
    [][(/\ inflight.pc = "read"
        /\ inflight'.pc = "idle"
        /\ is_manual_tag(game_tags, inflight.appid)) =>
           get_tag(game_tags', inflight.appid) = get_tag(game_tags, inflight.appid)]_vars

\* ------------------------------------------------------------------- C25

\* Caller p has games left to process.
Processing(p) == lib[p].pc = "loop" /\ lib[p].i < Len(lib[p].ids)

\* C25: a library-wide sync can start while another is processing games,
\* and whenever one of two overlapping syncs returns while the other has
\* games left, get_sync_progress reports syncing = false, current = 0 and
\* total = 0 for the one still running.
C25_OverlapCorruptsProgress ==
    /\ [](\A p \in Callers :
             (lib[p].pc = "idle" /\ work < MaxWork) =>
                 ENABLED StartLibrary(p, "game_data", <<"440">>))
    /\ [][\A p, q \in Callers :
             (/\ p # q
              /\ lib[p].pc = "loop"
              /\ lib'[p].pc = "idle"
              /\ Processing(q)) =>
                 /\ Processing(q)'
                 /\ ~sync_in_progress'
                 /\ sync_current' = 0
                 /\ sync_total' = 0]_vars

\* One sync is still processing games, with one of its games already
\* synced, while the progress triple says that no sync is running.
C25_Witness ==
    /\ ~sync_in_progress
    /\ \E q \in Callers : Processing(q) /\ lib[q].i >= 1

\* ------------------------------------------------------------------- C26

\* C26: a step that is not a step of a library-wide sync (a single-game
\* sync, a forced reset, a manual tag set or removed, a settings update, a
\* tag report, the dropped sweep) leaves the progress triple as it was, and
\* the triple is (false, 0, 0) whenever no library-wide sync is running.
C26_ProgressFrame ==
    /\ []((\A p \in Procs : lib[p].pc = "idle") =>
              (~sync_in_progress /\ sync_current = 0 /\ sync_total = 0))
    /\ [][lib' = lib => UNCHANGED <<sync_in_progress, sync_current, sync_total>>]_vars

\* A manual tag has been set while a library-wide sync with one game synced
\* is running, and the triple still shows that sync.
C26_Witness ==
    /\ last.op = "set_manual_tag"
    /\ lib[1].pc = "loop"
    /\ sync_in_progress
    /\ sync_current = 1
    /\ sync_total = 2

\* ------------------------------------------------------------------- C27

SingleGameSyncs == {"sync_single_game", "reset_to_auto_tag", "sync_game_with_playtime"}

\* The step is a single-game sync that ran to its end.
SyncStep ==
    /\ last'.op \in SingleGameSyncs
    /\ last'.outcome \in {"success_true", "no_indicator"}
    /\ ~last'.error

\* Before the step, the game of the step's sync had a cache row whose
\* main-story hours are not None.
HadMainStory ==
    /\ last'.appid \in DOMAIN hltb_cache
    /\ hltb_cache[last'.appid].main_story # NoValue

\* C27: a single-game sync calls the search provider not at all when the
\* game has a cache entry with a non-null main-story duration or when its
\* name is empty or an "Unknown..." placeholder, and at most once otherwise.
C27_LookupGated ==
    [][SyncStep =>
          /\ (HadMainStory \/ last'.placeholder) => last'.calls = 0
          /\ last'.calls <= 1]_vars

\* ------------------------------------------------------------------- C28

\* The last step was a single-game sync whose search was a miss.
Missed == last.op \in SingleGameSyncs /\ last.miss

\* C28: after a single-game sync whose search was a miss (no candidate or a
\* failure, a best candidate under 0.7, a candidate without main-story
\* duration) the game has no cache entry, and a sync of the same game that
\* comes next calls the provider again (its name not being a placeholder);
\* a sync of a game that has a stored entry with similarity >= 0.7 and a
\* main-story duration does not call the provider.
C28_MissRetried ==
    /\ [](Missed => last.appid \notin DOMAIN hltb_cache)
    /\ [][(SyncStep /\ Missed /\ last'.appid = last.appid /\ ~last'.placeholder) =>
             last'.calls = 1]_vars
    /\ [][(/\ SyncStep
           /\ HadMainStory
           /\ hltb_cache[last'.appid].similarity >= MinSimilarity) =>
             last'.calls = 0]_vars

\* ------------------------------------------------------------------- C29

\* C29: in a library-wide sync the pacing counter is the number of games
\* whose single-game sync fetched a completion time, and the delays so far
\* are one for every 5 such fetches.
C29_PacingCountsFetches ==
    \A p \in Procs :
        lib[p].pc = "loop" =>
            /\ lib[p].hltb_requests = lib[p].fetches
            /\ lib[p].delays = lib[p].fetches \div PaceEvery

\* ------------------------------------------------------------------- C30

\* C30: a non-forced single-game sync of a manually tagged game leaves the
\* tag row alone and writes the playtime and achievements it obtained to the
\* game's stats row, through sync_single_game and through
\* sync_game_with_playtime.
C30_ManualStatsRefreshed ==
    [][/\ \A appid \in Games, fs \in FileStats, lookup \in LibLookups :
             (/\ last'.op = "sync_single_game"
              /\ is_manual_tag(game_tags, appid)
              /\ SyncSingleGame(appid, fs, lookup)) =>
                 /\ game_tags' = game_tags
                 /\ appid \in DOMAIN game_stats'
                 /\ game_stats'[appid].playtime_minutes = fs.playtime_minutes
                 /\ game_stats'[appid].total_achievements = fs.total_achievements
                 /\ game_stats'[appid].unlocked_achievements = fs.unlocked_achievements
       /\ \A appid \in Games, playtime \in Playtimes, ach \in AchInputs \ {NoAch} :
             (/\ last'.op = "sync_game_with_playtime"
              /\ is_manual_tag(game_tags, appid)
              /\ \E lookup \in LibLookups :
                    SyncGameWithPlaytime(appid, playtime, ach, lookup, last'.rt)) =>
                 /\ game_tags' = game_tags
                 /\ appid \in DOMAIN game_stats'
                 /\ game_stats'[appid].playtime_minutes = playtime
                 /\ game_stats'[appid].total_achievements = ach.total
                 /\ game_stats'[appid].unlocked_achievements = ach.unlocked]_vars

\* ------------------------------------------------------------------- C31

\* The step is a sync of a game with a synthetic non-Steam id that has no
\* cache entry once the lookup has been tried.
HiddenSync ==
    /\ last'.op \in {"sync_single_game", "sync_game_with_playtime"}
    /\ last'.outcome \in {"success_true", "no_indicator"}
    /\ ~last'.error
    /\ is_non_steam(last'.appid)
    /\ last'.appid \notin DOMAIN hltb_cache'

\* C31: a sync of a hidden game records the game's stats, leaves its tag
\* row as it was (none is created, none is changed) and reports no tag
\* change.
C31_HiddenNeverTagged ==
    [][HiddenSync =>
          /\ last'.appid \in DOMAIN game_stats'
          /\ get_tag(game_tags', last'.appid) = get_tag(game_tags, last'.appid)
          /\ ~last'.changed]_vars

\* ------------------------------------------------------------------- C32

\* The background task begins a sweep.
SweepBegins == sweeper.pc # "sweeping" /\ sweeper'.pc = "sweeping"

C33_FailedSweepRetriesInAnHour ==
    [][(last'.op = "dropped_sweep" /\ last'.error) =>
          /\ sweeper'.pc # "done"
          /\ sweeper'.sleep = RetrySleep
          /\ sweeper'.sleep # DaySleep]_vars

\* ------------------------------------------------------------------- C39

\* C39: when the connection of the store is closed the background task has
\* been cancelled and is over, and from then on the task takes no step and
\* no table changes; a plugin that is unloaded before any call or sweep
\* did its work leaves tags, stats and cache as it found them.
C39_TaskOverBeforeClose ==
    /\ [](connection = "closed" => sweeper.cancel /\ sweeper.pc = "done")
    /\ [][connection = "closed" =>
             /\ sweeper' = sweeper
             /\ UNCHANGED <<game_tags, game_stats, hltb_cache>>]_vars
    /\ []((connection = "closed" /\ work = 0) =>
             /\ game_tags = EarlierSession.tags
             /\ game_stats = EarlierSession.stats
             /\ hltb_cache = EarlierSession.cache)
    /\ (sweeper.cancel ~> connection = "closed")

\* The plugin was unloaded while the task was in a sweep, before any call.
C39_Witness ==
    /\ connection = "closed"
    /\ work = 0
    /\ sweeper.stopped_in = "sweeping"

\* ------------------------------------------------------------------- C34

\* The loop of parse_vdf takes one token.
TokenTaken(kind) == cout'.toks # cout.toks /\ cout'.token = kind

\* The content with a closing brace added for every dict still open.
Closed(content, open) ==
    LET braces[n \in 0 .. open] ==
            IF n = 0 THEN << >> ELSE braces[n - 1] \o <<Space, "}">>
    IN  content \o braces[open]

\* C34: on any sequence of tokens the parse returns and its frame stack is
\* never empty; a closing brace at root level and an opening brace with
\* no pending key change neither the stack nor the pending key; a value
\* replaces what its key held at that level; and a content that ends with
\* dicts still open yields what it would with its closing braces added.
C34_ParseVdfTotal ==
    /\ [](Len(cout.stack) >= 1)
    /\ <>cout.done
    /\ [][/\ (TokenTaken("close") /\ Len(cout.stack) = 1) =>
                (cout'.stack = cout.stack /\ cout'.current_key = cout.current_key)
          /\ (TokenTaken("open") /\ ~cout.current_key.set) =>
                (cout'.stack = cout.stack /\ cout'.current_key = cout.current_key)
          /\ (TokenTaken("token") /\ cout.current_key.set) =>
                /\ Len(cout'.stack) = Len(cout.stack)
                /\ cout'.stack[Len(cout.stack)].map[cout.current_key.text]
                      = StrNode(Head(cout.toks).text)]_vars
    /\ [](cout.done =>
             cout.parsed = parse_vdf(Closed(cin, Len(cout.stack) - 1)))

\* A content that begins with a closing brace at root level and ends
\* inside a dict that is never closed, a key pending, was parsed to its end.
C34_Witness ==
    /\ cout.done
    /\ Len(cout.stack) = 2
    /\ cout.parsed # EmptyMap
    /\ cin = <<Space, "}", Space, "a", Space, "{", Space, "a">>

\* ------------------------------------------------------------------- C35

\* The record of the i-th shortcut of the buffer.
OwnRecord(i) ==
    [appid |-> cin.ids[i], name |-> cin.names[i], playtime_minutes |-> 0,
     is_non_steam |-> TRUE]

\* C35: a buffer of well-formed shortcuts whose name field stands before
\* its id field, the id marker within the window of the name marker,
\* parses to one record per shortcut, each with the id of its own shortcut.
C35_EachNameItsOwnId ==
    (cout.done /\ cin.layout = "name_first" /\ cin.whole) =>
        cout.games = [i \in DOMAIN cin.names |-> OwnRecord(i)]

\* ------------------------------------------------------------------- C40

\* C40: the scan of any buffer comes to its return; every turn of the loop
\* leaves the cursor strictly further on, past the terminator of the name it
\* consumed; and the loop is left exactly when the cursor has reached the
\* end of the buffer, no name marker is found from the cursor on, or the
\* name found has no terminator.
C40_ScanTerminates ==
    /\ <>cout.done
    /\ [][~cout'.done =>
             /\ cout'.pos > cout.pos
             /\ cout'.pos <= Len(cin.content)
             /\ cin.content[cout'.pos] = 0
             /\ find(cin.content, NameMarker, cout.pos) < cout'.pos]_vars
    /\ [][cout'.done =>
             LET marker == find(cin.content, NameMarker, cout.pos)
             IN  \/ cout.pos >= Len(cin.content)
                 \/ marker = 0 - 1
                 \/ find(cin.content, <<0>>, marker + Len(NameMarker)) = 0 - 1]_vars

\* The scan of a buffer of two shortcuts returned after two turns.
C40_Witness ==
    /\ cout.done
    /\ Len(cin.names) = 2
    /\ cin.whole
    /\ cout.pos > Len(NameMarker) + Len(IdMarker)
    /\ Len(cout.games) = 2

\* ------------------------------------------------------------------- C36

\* C36: every stored stats row has no more unlocked achievements than
\* achievements in total, and its achievement percentage is
\* 100 * unlocked / total when the total is positive and 0 otherwise.
C36_AchievementInvariants ==
    \A appid \in DOMAIN game_stats :
        LET row == game_stats[appid]
        IN  /\ row.unlocked_achievements <= row.total_achievements
            /\ achievement_percentage_of(row)
                   = IF row.total_achievements > 0
                     THEN (100 * row.unlocked_achievements) \div row.total_achievements
                     ELSE 0

\* ------------------------------------------------------------------- C37

\* C37: in every report of get_tag_statistics the four tag counts and the
\* backlog add up to the total, and the backlog is not negative.
C37_CountsAddUp ==
    last.op = "get_tag_statistics" =>
        /\ last.counts.completed + last.counts.in_progress + last.counts.mastered
              + last.counts.dropped + last.counts.backlog = last.counts.total
        /\ last.counts.backlog >= 0

\* ------------------------------------------------------------------- C38

\* The step is the call op on the game whose tag the step before removed.
AfterRemove(op) ==
    /\ last.op = "remove_tag"
    /\ last'.op = op
    /\ last'.appid = last.appid
    /\ ~last'.error

\* remove_tag succeeds and leaves the game without a tag row; on a game
\* without one it changes nothing; get_game_tag then answers no tag.
RemoveLiftsTag ==
    /\ [][last'.op = "remove_tag" =>
             /\ last'.outcome = "success_true"
             /\ last'.appid \notin DOMAIN game_tags'
             /\ \A g \in DOMAIN game_tags \ {last'.appid} :
                   g \in DOMAIN game_tags' /\ game_tags'[g] = game_tags[g]
             /\ last'.appid \notin DOMAIN game_tags => game_tags' = game_tags]_vars
    /\ [][AfterRemove("get_game_tag") => last'.got = NoTag]_vars

\* The row the classifier's result makes: none for no result.
AutoRow(appid) == [tag |-> calculate_auto_tag(DB', appid), is_manual |-> FALSE]

\* C38 as claimed: remove_tag succeeds, get_game_tag then answers no tag,
\* and the non-forced sync of the game that follows stores the classifier's
\* tag as an automatic one, whatever the game.
C38_AsClaimed ==
    /\ RemoveLiftsTag
    /\ [][(AfterRemove("sync_game_with_playtime") \/ AfterRemove("sync_single_game")) =>
             get_tag(game_tags', last'.appid) = AutoRow(last'.appid)]_vars

\* C38: remove_tag succeeds, get_game_tag then answers no tag, and the
\* non-forced sync of the game that follows stores the classifier's tag as
\* an automatic one unless the game is hidden, and then it stays untagged.
C38_RemoveLiftsProtection ==
    /\ RemoveLiftsTag
    /\ [][(AfterRemove("sync_game_with_playtime") \/ AfterRemove("sync_single_game")) =>
             \/ is_non_steam(last'.appid) /\ last'.appid \notin DOMAIN hltb_cache'
             \/ get_tag(game_tags', last'.appid) = AutoRow(last'.appid)]_vars

\* The game that was tagged mastered by hand carries an automatic tag: the
\* manual tag was removed and a sync classified the game.
C38_Witness ==
    /\ last.op = "sync_game_with_playtime"
    /\ last.appid = "440"
    /\ last.changed
    /\ "440" \in DOMAIN game_tags
    /\ ~game_tags["440"].is_manual

====
